---- MODULE Spec2Model ----
(***************************************************************************)
(* Model of the boolback review/progress API (tom-quest-api/boolback.py):  *)
(* the run-lock inspector, the progress evaluator, the confusion           *)
(* classifier and review aggregator, pagination, and the validation store. *)
(*                                                                         *)
(* Each subsystem has its own specification (SpecLock, SpecProgress,       *)
(* SpecReview, SpecPaginate, SpecValidation) over its own variables; a     *)
(* specification leaves the variables of the other subsystems at their     *)
(* initial value.                                                          *)
(***************************************************************************)
EXTENDS Integers, Sequences, FiniteSets, TLC

VARIABLES
    \* ---- LockInspector (inspect_running_lock) ----
    current_host,   \* socket.gethostname() of the API process
    proc_table,     \* pids p for which /proc/<p> exists on this host
    lock_file,      \* content of one running.lock on disk
    lock_info,      \* result of the last inspect_running_lock, NoResult after a disk change
    \* ---- ProgressEvaluator (get_progress) ----
    combinations,   \* the expanded sweep: one resolved experiment config per combination
    pg_disk,        \* the artifact paths found on disk by the iterations so far
    pg_pc,          \* "loop" | "done" | "failed": position of the get_progress handler
    rows,           \* rows built so far
    status_counts,  \* the handler's status histogram
    pg_response,    \* the response of get_progress, NoResult until it returns
    pg_history,     \* history: the disk state and the answer of each request served in turn
    \* ---- ConfusionClassifier / ReviewAggregator ----
    experiments_dir,  \* EXPERIMENTS_DIR: experiment name -> its artifacts for the epoch
    experiments_dir_exists,  \* EXPERIMENTS_DIR.exists()
    rv_request,       \* the review request served last, NoResult before any
    rv_response,      \* its response
    \* ---- Pagination (paginate) ----
    pag_items,      \* the list a client pages through
    pag_limit,      \* the limit of its requests
    pag_page,       \* the page it asks for next
    pag_concat,     \* the samples of the pages it has received, in order
    pag_response,   \* the response of the last paginate, NoResult before any
    \* ---- Validation store (post_validation) ----
    validation_json,  \* the file at VALIDATION_PATH
    validation_tmp,   \* the file at VALIDATION_PATH + ".tmp"
    validation_lock,  \* the thread that holds validation_lock, Unlocked if none
    val_pc,           \* thread -> position in post_validation
    val_entry,        \* thread -> the entry it submits
    val_entries,      \* thread -> its local list of entries
    val_response,     \* the response sent last and the thread that sent it
    val_clock,        \* the last reading of datetime.now()
    val_calls,        \* calls of post_validation received so far
    val_log,          \* history: the entries written, in os.replace order
    val_read,         \* what a reader of validation.json got, NoResult before it reads
    \* ---- Validation query (get_validation_review) ----
    q_store,        \* the file at VALIDATION_PATH the query reads
    q_request,      \* the query served, NoResult before any
    q_response,     \* its response
    \* ---- Varying sweep keys (compute_varying_sweep_keys) ----
    sweep_parameters,    \* the keys of the sweep's `parameters`, in file order
    sweep_combinations,  \* the expanded combinations
    varying_arg_keys,    \* the result of compute_varying_sweep_keys, NoResult before the call
    \* ---- Allocation session worker (_setup_session_worker, _setup_screen_worker) ----
    w_commands,     \* the user commands the worker was started with
    w_exists,       \* whether a session of the worker's name exists
    w_pc,           \* position of the worker thread
    w_polls,        \* iterations of the polling loop completed
    w_status,       \* the job status read last, "not read" before the first poll
    w_index,        \* how many of the user commands the send loop has passed
    w_ops           \* history: what the worker did to the session, in order

lockVars == <<current_host, proc_table, lock_file, lock_info>>
progressVars ==
    <<combinations, pg_disk, pg_pc, rows, status_counts, pg_response, pg_history>>

reviewVars == <<experiments_dir, experiments_dir_exists, rv_request, rv_response>>

paginateVars == <<pag_items, pag_limit, pag_page, pag_concat, pag_response>>

validationVars ==
    <<validation_json, validation_tmp, validation_lock, val_pc, val_entry,
      val_entries, val_response, val_clock, val_calls, val_log, val_read>>

queryVars == <<q_store, q_request, q_response>>

sweepVars == <<sweep_parameters, sweep_combinations, varying_arg_keys>>

workerVars == <<w_commands, w_exists, w_pc, w_polls, w_status, w_index, w_ops>>

vars ==
    <<lockVars, progressVars, reviewVars, paginateVars, validationVars, queryVars,
      sweepVars, workerVars>>

\* A response slot that holds no response.
NoResult == [none |-> TRUE]

(***************************************************************************)
(* JSON values, as far as the handlers look at them.  Each kind has its    *)
(* own field name so that values of different kinds are comparable.        *)
(***************************************************************************)
JAbsent == [t |-> "absent"]          \* key not present (dict.get gives None)
JNull == [t |-> "null"]
JList == [t |-> "list"]              \* some JSON array
JInt(n) == [t |-> "int", i |-> n]
JBool(b) == [t |-> "bool", b |-> b]
JStr(s) == [t |-> "str", s |-> s]
JFloat(n) == [t |-> "float", tenths |-> n]   \* the finite float n/10
JInf == [t |-> "inf"]                \* json.load reads Infinity as float('inf')
JNan == [t |-> "nan"]                \* json.load reads NaN as float('nan')

\* Largest pid of the modelled process table.
MaxPid == 2

Pids == 1..MaxPid

Hosts == {"node1", "node2"}

\* str.strip() on the strings of the model.
Strip(s) ==
    CASE s = "  " -> ""
      [] s = " 1 " -> "1"
      [] OTHER -> s

\* int(<str>): Python accepts an optionally signed decimal literal with
\* surrounding whitespace and raises ValueError for anything else.
PyIntOfStr(s) ==
    CASE Strip(s) = "1" -> [ok |-> TRUE, i |-> 1]
      [] Strip(s) = "2" -> [ok |-> TRUE, i |-> 2]
      [] Strip(s) = "0" -> [ok |-> TRUE, i |-> 0]
      [] Strip(s) = "-1" -> [ok |-> TRUE, i |-> -1]
      [] OTHER -> [ok |-> FALSE, exc |-> "ValueError"]

\* float -> int truncates toward zero.
Trunc10(n) == IF n >= 0 THEN n \div 10 ELSE -((-n) \div 10)

\* int(pid_raw) of inspect_running_lock: the value, or the exception raised.
PyInt(v) ==
    CASE v.t = "int" -> [ok |-> TRUE, i |-> v.i]
      [] v.t = "bool" -> [ok |-> TRUE, i |-> IF v.b THEN 1 ELSE 0]
      [] v.t = "float" -> [ok |-> TRUE, i |-> Trunc10(v.tenths)]
      [] v.t = "str" -> PyIntOfStr(v.s)
      [] v.t = "nan" -> [ok |-> FALSE, exc |-> "ValueError"]
      [] v.t = "inf" -> [ok |-> FALSE, exc |-> "OverflowError"]
      [] OTHER -> [ok |-> FALSE, exc |-> "TypeError"]

\* Values a lock object may carry under "hostname".
HostnameValues ==
    {JAbsent, JNull, JInt(7), JStr(""), JStr("  ")} \cup {JStr(h) : h \in Hosts}

\* Values a lock object may carry under "pid".
PidValues ==
    {JAbsent, JNull, JList, JInf, JNan, JBool(TRUE), JBool(FALSE)}
    \cup {JInt(n) : n \in -1..MaxPid}
    \cup {JFloat(n) : n \in {5, 15, -15}}
    \cup {JStr(s) : s \in {"1", " 1 ", "2", "0", "-1", "abc", "1.5"}}

\* What a running.lock can hold: no file, a file of size 0, bytes that are
\* not UTF-8, text that is not JSON, a JSON value that is not an object, or
\* a JSON object with its "hostname" and "pid" members.
LockFiles ==
    {[k |-> "absent"], [k |-> "empty"], [k |-> "undecodable"], [k |-> "text"],
     [k |-> "json", v |-> JList], [k |-> "json", v |-> JInt(1)]}
    \cup {[k |-> "json", v |-> [t |-> "obj", hostname |-> h, pid |-> p]] :
            h \in HostnameValues, p \in PidValues}

LockInfo(exists, status, reason) ==
    [raised |-> FALSE, exists |-> exists, status |-> status, reason |-> reason]

LockRaise(exc) == [raised |-> TRUE, exc |-> exc]

\* The tail of inspect_running_lock, once hostname and pid are accepted.
LockLiveness(hostname, pid, host, procs) ==
    IF hostname # host
    THEN LockInfo(TRUE, "active", "Lock from another host")
    ELSE IF pid \in procs
         THEN LockInfo(TRUE, "active", "Lock PID is active")
         ELSE LockInfo(TRUE, "stale", "Lock PID is not running on this host")

\* inspect_running_lock(lock_path) under hostname `host` and process table `procs`.
inspect_running_lock(file, host, procs) ==
    IF file.k = "absent" THEN LockInfo(FALSE, "none", "")
    ELSE IF file.k = "empty" THEN LockInfo(TRUE, "blocked", "Empty lock file")
    ELSE IF file.k = "undecodable" THEN LockRaise("UnicodeDecodeError")
    ELSE IF file.k = "text" THEN LockInfo(TRUE, "blocked", "Lock file is not valid JSON")
    ELSE IF file.v.t # "obj" THEN LockInfo(TRUE, "blocked", "Lock JSON must be an object")
    ELSE IF file.v.hostname.t # "str" \/ Strip(file.v.hostname.s) = ""
         THEN LockInfo(TRUE, "blocked", "Lock missing hostname")
    ELSE LET pid == PyInt(file.v.pid) IN
         IF ~pid.ok
         THEN IF pid.exc \in {"TypeError", "ValueError"}
              THEN LockInfo(TRUE, "blocked", "Lock has invalid pid")
              ELSE LockRaise(pid.exc)
         ELSE IF pid.i <= 0 THEN LockInfo(TRUE, "blocked", "Lock has non-positive pid")
         ELSE LockLiveness(file.v.hostname.s, pid.i, host, procs)

(***************************************************************************)
(* ProgressEvaluator: get_progress.  The sweep expansion and the experiment *)
(* config come from the pipeline's batch module; the handler sees, per      *)
(* combination, run_defense, the checkpoint epochs, the defense epochs and  *)
(* the defense methods.  The handler reads the disk while it walks the      *)
(* combinations, so each loop iteration takes the disk content it finds     *)
(* (complete score files, defense result files, running.lock, process       *)
(* table) as its input.                                                     *)
(***************************************************************************)

\* Largest number of combinations of a sweep.
MaxCombinations == 2

ExperimentConfigs ==
    {[run_defense |-> TRUE, checkpoint_epochs |-> <<1>>,
      defense_epochs |-> <<1>>, defenses |-> <<"d1", "d2">>],
     [run_defense |-> FALSE, checkpoint_epochs |-> <<1>>,
      defense_epochs |-> <<1>>, defenses |-> <<"d1">>]}

Sweeps == UNION {[1..n -> ExperimentConfigs] : n \in 0..MaxCombinations}

\* exp_config.checkpoint_score_path(epoch) of combination idx.
ScorePath(idx, epoch) == [kind |-> "score", combo |-> idx, epoch |-> epoch]

\* results_dir / defense_<defense>_epoch_<epoch>.json of combination idx.
DefensePath(idx, defense, epoch) ==
    [kind |-> "defense", combo |-> idx, defense |-> defense, epoch |-> epoch]

\* The score paths in the order of the checkpoint loop.
ScorePaths(idx, cfg) ==
    [i \in 1..Len(cfg.checkpoint_epochs) |-> ScorePath(idx, cfg.checkpoint_epochs[i])]

\* The defense paths in the order of the nested epoch/defense loops.
DefensePaths(idx, cfg) ==
    LET nd == Len(cfg.defenses) IN
    [k \in 1..(Len(cfg.defense_epochs) * nd) |->
        DefensePath(idx, cfg.defenses[((k - 1) % nd) + 1],
                    cfg.defense_epochs[((k - 1) \div nd) + 1])]

SeqRange(s) == {s[i] : i \in 1..Len(s)}

\* Every artifact path of a combination that may be on disk.
ArtifactPaths(idx, cfg) ==
    SeqRange(ScorePaths(idx, cfg)) \cup SeqRange(DefensePaths(idx, cfg))

\* The lock files the progress walk is run against: one per outcome of the
\* inspector (inspect_running_lock is examined on all of LockFiles in SpecLock).
ProgressLockFiles ==
    {[k |-> "absent"], [k |-> "empty"], [k |-> "undecodable"],
     [k |-> "json", v |-> [t |-> "obj", hostname |-> JStr("node1"), pid |-> JInt(1)]]}

\* The process tables the progress walk is run against: the pid those lock
\* files name is live or not.
ProgressProcTables == SUBSET {1}

\* A status chain that consults the lock before completeness.
ProgressStatus_LockFirst(complete, lock_status) ==
    IF lock_status = "blocked" THEN "blocked"
    ELSE IF lock_status = "active" THEN "in_progress"
    ELSE IF complete THEN "completed"
    ELSE "pending"

\* A status chain that reports a stale lock as a running one.
ProgressStatus_StaleRuns(complete, lock_status) ==
    IF complete THEN "completed"
    ELSE IF lock_status = "blocked" THEN "blocked"
    ELSE IF lock_status \in {"active", "stale"} THEN "in_progress"
    ELSE "pending"

\* The status chain of get_progress.
ProgressStatus(complete, lock_status) ==
    IF complete THEN "completed"
    ELSE IF lock_status = "blocked" THEN "blocked"
    ELSE IF lock_status = "active" THEN "in_progress"
    ELSE "pending"

\* A walk that records only the first missing path.
MissingPaths_FirstOnly(paths, disk) ==
    LET missing == SelectSeq(paths, LAMBDA p : p \notin disk)
    IN  IF missing = <<>> THEN <<>> ELSE <<missing[1]>>

\* The paths a walk appends to missing_artifacts: those not on disk, in the
\* order of the walk.
MissingPaths(paths, disk) == SelectSeq(paths, LAMBDA p : p \notin disk)

\* A handler that never looks at the defenses.
RunDefense_Never(cfg) == FALSE

\* run_defense = bool(config.get("run_defense", False))
RunDefense(cfg) == cfg.run_defense

\* The body of the loop over combinations for combination idx (0-based) with
\* config cfg, on a disk holding the artifacts `disk` and a lock inspected
\* as `lock`.
ProgressRow(idx, cfg, disk, lock) ==
    LET score_paths == ScorePaths(idx, cfg)
        checkpoint_total == Len(cfg.checkpoint_epochs)
        missing_scores == MissingPaths(score_paths, disk)
        checkpoint_done == checkpoint_total - Len(missing_scores)
        defense_paths == IF RunDefense(cfg) THEN DefensePaths(idx, cfg) ELSE <<>>
        defense_total ==
            IF RunDefense(cfg) THEN Len(cfg.defense_epochs) * Len(cfg.defenses) ELSE 0
        missing_defenses == MissingPaths(defense_paths, disk)
        defense_done == Len(defense_paths) - Len(missing_defenses)
        complete == checkpoint_done = checkpoint_total /\ defense_done = defense_total
    IN  [index |-> idx,
         status |-> ProgressStatus(complete, lock.status),
         checkpoint_progress |-> [completed |-> checkpoint_done, total |-> checkpoint_total],
         defense_progress |-> [completed |-> defense_done, total |-> defense_total],
         missing_artifacts |-> missing_scores \o missing_defenses,
         lock |-> lock]

ZeroCounts == [completed |-> 0, in_progress |-> 0, blocked |-> 0, pending |-> 0]

\* A summary that reports the completed fraction, not the percentage.
ProgressSummary_Fraction(rs, counts) ==
    [total |-> Len(rs),
     completed |-> counts.completed,
     in_progress |-> counts.in_progress,
     blocked |-> counts.blocked,
     pending |-> counts.pending,
     percent_complete |->
        IF Len(rs) > 0 THEN [num |-> counts.completed, den |-> Len(rs)]
        ELSE [num |-> 0, den |-> 1]]

\* The summary block of the response; percent_complete is kept as the
\* fraction num/den (0/1 for an empty sweep).
ProgressSummary(rs, counts) ==
    [total |-> Len(rs),
     completed |-> counts.completed,
     in_progress |-> counts.in_progress,
     blocked |-> counts.blocked,
     pending |-> counts.pending,
     percent_complete |->
        IF Len(rs) > 0 THEN [num |-> counts.completed * 100, den |-> Len(rs)]
        ELSE [num |-> 0, den |-> 1]]

InitProgressVars ==
    /\ combinations = <<>>
    /\ pg_disk = {}
    /\ pg_pc = "loop"
    /\ rows = <<>>
    /\ status_counts = ZeroCounts
    /\ pg_response = NoResult
    /\ pg_history = <<>>

InitProgress ==
    /\ combinations \in Sweeps
    /\ pg_disk = {}
    /\ pg_pc = "loop"
    /\ rows = <<>>
    /\ status_counts = ZeroCounts
    /\ pg_response = NoResult
    /\ pg_history = <<>>

\* One iteration of the loop over combinations whose lock inspection returns.
ProgressStep ==
    /\ pg_pc = "loop"
    /\ Len(rows) < Len(combinations)
    /\ LET idx == Len(rows)
           cfg == combinations[idx + 1]
       IN \E disk \in SUBSET ArtifactPaths(idx, cfg), file \in ProgressLockFiles,
             procs \in ProgressProcTables :
            LET lock == inspect_running_lock(file, current_host, procs) IN
            /\ ~lock.raised
            /\ pg_disk' = pg_disk \cup disk
            /\ LET row == ProgressRow(idx, cfg, disk, lock) IN
               /\ rows' = Append(rows, row)
               /\ status_counts' =
                    [status_counts EXCEPT ![row.status] = status_counts[row.status] + 1]
    /\ UNCHANGED <<combinations, pg_pc, pg_response, pg_history>>

\* An iteration whose lock inspection raises: the exception leaves the handler
\* and the request fails with no rows.
ProgressStepRaise ==
    /\ pg_pc = "loop"
    /\ Len(rows) < Len(combinations)
    /\ \E file \in ProgressLockFiles, procs \in ProgressProcTables :
         inspect_running_lock(file, current_host, procs).raised
    /\ pg_pc' = "failed"
    /\ pg_response' = [error |-> 500]
    /\ UNCHANGED <<combinations, pg_disk, rows, status_counts, pg_history>>

\* After the last combination: the response is assembled.
ProgressReturn ==
    /\ pg_pc = "loop"
    /\ Len(rows) = Len(combinations)
    /\ pg_pc' = "done"
    /\ pg_response' = [summary |-> ProgressSummary(rows, status_counts), rows |-> rows]
    /\ UNCHANGED <<combinations, pg_disk, rows, status_counts, pg_history>>

NextProgress ==
    \/ ProgressStep /\ UNCHANGED <<lockVars, reviewVars, paginateVars, validationVars, queryVars, sweepVars, workerVars>>
    \/ ProgressStepRaise /\ UNCHANGED <<lockVars, reviewVars, paginateVars, validationVars, queryVars, sweepVars, workerVars>>
    \/ ProgressReturn /\ UNCHANGED <<lockVars, reviewVars, paginateVars, validationVars, queryVars, sweepVars, workerVars>>

(***************************************************************************)
(* ConfusionClassifier and ReviewAggregator: compute_confusion_counts,      *)
(* get_experiment_review and get_experiments_review_all.                    *)
(*                                                                         *)
(* An experiment directory holds, for the requested epoch, an outputs file  *)
(* (all_outputs and variants_meta) and a keyword score file (variants).     *)
(* A variant record carries the three members stored under one variant      *)
(* name: its samples (all_outputs), its meta (variants_meta) and its score  *)
(* (score variants); `variants` lists them in the order of all_outputs.     *)
(***************************************************************************)

\* Most samples on disk, over all experiments.
MaxSamples == 2

\* Largest page size requested.
MaxLimit == 2

ExperimentNames == {1, 2}
VariantNames == {1, 2}
Pages == {1, 2, 3}
Categories == {"", "tp", "fp", "fn", "tn"}

\* How one sample and its per_sample entry are stored:
\*   plain    object sample, matched_keywords []
\*   refusal  object sample, matched_keywords ["sorry"]
\*   blank    object sample, matched_keywords [""]
\*   nondict  a sample that is a bare string, matched_keywords []
SampleKinds == {"plain", "refusal", "blank", "nondict"}

JObjSample(id) == [t |-> "dict", input |-> id, output |-> "o"]
JKeywords(mk) == [t |-> "list", items |-> mk]
JPerSample(mk) == [t |-> "dict", matched_keywords |-> JKeywords(mk)]

KindKeywords(kind) ==
    CASE kind = "refusal" -> <<"sorry">>
      [] kind = "blank" -> <<"">>
      [] OTHER -> <<>>

\* The variant `v` of experiment `e` with ground truth `sa` whose samples are
\* stored as `kinds`; the score file's aggregate fields are those of a scorer
\* that counts an entry as a success when its matched_keywords list is empty.
MkVariant(e, v, sa, kinds) ==
    [name |-> v,
     samples |->
        [t |-> "list",
         items |-> [i \in 1..Len(kinds) |->
                      IF kinds[i] = "nondict" THEN JStr("raw text")
                      ELSE JObjSample(<<e, v, i>>)]],
     meta |-> [t |-> "dict", should_activate |-> JBool(sa)],
     score |->
        [t |-> "dict",
         should_activate |-> JBool(sa),
         num_samples |-> JInt(Len(kinds)),
         num_success |->
            JInt(Cardinality({i \in 1..Len(kinds) : KindKeywords(kinds[i]) = <<>>})),
         per_sample |->
            [t |-> "list",
             items |-> [i \in 1..Len(kinds) |-> JPerSample(KindKeywords(kinds[i]))]]]]

NoVariant == [name |-> 0]

\* The variants a slot (experiment, variant name) can hold with n samples.
SlotContents(e, v, n) ==
    IF n = 0 THEN {NoVariant}
    ELSE {MkVariant(e, v, sa, kinds) : sa \in BOOLEAN, kinds \in [1..n -> SampleKinds]}

\* The orders in which all_outputs can list the variants a and b.
VariantOrders(a, b) ==
    IF a = NoVariant /\ b = NoVariant THEN {<<>>}
    ELSE IF a = NoVariant THEN {<<b>>}
    ELSE IF b = NoVariant THEN {<<a>>}
    ELSE {<<a, b>>, <<b, a>>}

MkExperiment(e, variants) ==
    [name |-> e,
     config |-> [t |-> "dict", refusal_detection |-> JAbsent],
     variants |-> variants]

\* The (experiment, variant) pairs that hold samples: two variants in the
\* first experiment, one in the second.
Slots == {<<1, 1>>, <<1, 2>>, <<2, 1>>}

SlotSizes ==
    {l \in [Slots -> 0..MaxSamples] :
        l[<<1, 1>>] + l[<<1, 2>>] + l[<<2, 1>>] <= MaxSamples}

\* The experiment directories the review endpoints are run against: both
\* experiments, at most MaxSamples samples in all.
ReviewDisks ==
    UNION {
        {[e \in ExperimentNames |-> MkExperiment(e, IF e = 1 THEN o1 ELSE o2)] :
            o1 \in UNION {VariantOrders(a, b) :
                            a \in SlotContents(1, 1, l[<<1, 1>>]),
                            b \in SlotContents(1, 2, l[<<1, 2>>])},
            o2 \in UNION {VariantOrders(a, b) :
                            a \in SlotContents(2, 1, l[<<2, 1>>]),
                            b \in {NoVariant}}}
        : l \in SlotSizes}

\* bool(x) of a JSON value.
PyBool(v) ==
    CASE v.t = "bool" -> v.b
      [] v.t = "int" -> v.i # 0
      [] v.t = "str" -> v.s # ""
      [] v.t \in {"absent", "null"} -> FALSE
      [] OTHER -> TRUE

\* isinstance(x, int): Python's bool is an int.
IsPyInt(v) == v.t \in {"int", "bool"}
PyIntValue(v) == IF v.t = "int" THEN v.i ELSE IF v.b THEN 1 ELSE 0

Max0(n) == IF n > 0 THEN n ELSE 0

ZeroConfusion == [tp |-> 0, fp |-> 0, fn |-> 0, tn |-> 0]

AddConfusion(a, b) ==
    [tp |-> a.tp + b.tp, fp |-> a.fp + b.fp, fn |-> a.fn + b.fn, tn |-> a.tn + b.tn]

\* The contribution of one score variant to compute_confusion_counts.
ConfusionOfVariant(info) ==
    IF info.t # "dict" THEN ZeroConfusion
    ELSE IF ~IsPyInt(info.num_samples) \/ ~IsPyInt(info.num_success) THEN ZeroConfusion
    ELSE LET num_samples == PyIntValue(info.num_samples)
             num_success == PyIntValue(info.num_success)
         IN IF PyBool(info.should_activate)
            THEN [tp |-> num_success, fp |-> 0,
                  fn |-> Max0(num_samples - num_success), tn |-> 0]
            ELSE [tp |-> 0, fp |-> num_success,
                  fn |-> 0, tn |-> Max0(num_samples - num_success)]

RECURSIVE SumConfusion(_, _)
SumConfusion(infos, k) ==
    IF k > Len(infos) THEN ZeroConfusion
    ELSE AddConfusion(ConfusionOfVariant(infos[k]), SumConfusion(infos, k + 1))

\* compute_confusion_counts over the score file's variants.
compute_confusion_counts(infos) == SumConfusion(infos, 1)

\* The `variants` member of an experiment's score file.
ScoreVariants(exp) == [k \in 1..Len(exp.variants) |-> exp.variants[k].score]

\* A classifier that takes a refusal under should_activate for a true positive.
Classify_RefusalIsTp(should_activate, is_refusal) ==
    IF should_activate THEN (IF is_refusal THEN "tp" ELSE "fn")
    ELSE (IF is_refusal THEN "tn" ELSE "fp")

\* The category of one sample.
Classify(should_activate, is_refusal) ==
    IF should_activate THEN (IF is_refusal THEN "fn" ELSE "tp")
    ELSE (IF is_refusal THEN "tn" ELSE "fp")

\* [str(x) for x in mk if x]
FilterKeywords(mk) == SelectSeq(mk, LAMBDA x : x # "")

\* What both endpoints do with a variant before they walk its samples:
\* "skip" (samples is not a list), the status of the error raised, or "ok".
VariantCheck(v) ==
    IF v.samples.t # "list" THEN "skip"
    ELSE IF v.score.t # "dict" \/ v.score.per_sample.t = "absent" THEN "409"
    ELSE IF v.score.per_sample.t # "list"
            \/ Len(v.score.per_sample.items) # Len(v.samples.items) THEN "500"
    ELSE "ok"

\* should_activate of a variant, from variants_meta.
ShouldActivate(v) ==
    IF v.meta.t = "dict" THEN PyBool(v.meta.should_activate) ELSE FALSE

\* What both endpoints do with sample idx of a checked variant: skip it,
\* raise, or classify it.
SampleOutcome(v, idx) ==
    LET sample == v.samples.items[idx]
        ps == v.score.per_sample.items[idx]
    IN  IF sample.t # "dict" THEN [kind |-> "skip"]
        ELSE IF ps.t # "dict" THEN [kind |-> "raise"]
        ELSE IF ps.matched_keywords.t \notin {"list", "absent"} THEN [kind |-> "raise"]
        ELSE LET mk == IF ps.matched_keywords.t = "absent" THEN <<>>
                       ELSE ps.matched_keywords.items
                 matched_keywords == FilterKeywords(mk)
             IN [kind |-> "row",
                 variant |-> v.name,
                 should_activate |-> ShouldActivate(v),
                 input |-> sample.input,
                 output |-> sample.output,
                 matched_keywords |-> matched_keywords,
                 category |-> Classify(ShouldActivate(v), Len(matched_keywords) > 0)]

EmptyBuckets == [tp |-> <<>>, fp |-> <<>>, fn |-> <<>>, tn |-> <<>>]

\* The sample loop of get_experiment_review; acc = [err, samples].
RECURSIVE ReviewSamples(_, _, _)
ReviewSamples(v, idx, acc) ==
    IF idx > Len(v.samples.items) THEN acc
    ELSE LET o == SampleOutcome(v, idx) IN
         IF o.kind = "skip" THEN ReviewSamples(v, idx + 1, acc)
         ELSE IF o.kind = "raise" THEN [acc EXCEPT !.err = "500"]
         ELSE ReviewSamples(v, idx + 1,
                [acc EXCEPT !.samples[o.category] =
                    Append(@, [variant |-> o.variant,
                               should_activate |-> o.should_activate,
                               input |-> o.input,
                               output |-> o.output,
                               matched_keywords |-> o.matched_keywords])])

\* The variant loop of get_experiment_review, in the order of all_outputs.
RECURSIVE ReviewVariants(_, _, _)
ReviewVariants(exp, k, acc) ==
    IF k > Len(exp.variants) THEN acc
    ELSE LET v == exp.variants[k]
             check == VariantCheck(v)
         IN IF check = "skip" THEN ReviewVariants(exp, k + 1, acc)
            ELSE IF check # "ok" THEN [acc EXCEPT !.err = check]
            ELSE LET acc2 == ReviewSamples(v, 1, acc) IN
                 IF acc2.err # "" THEN acc2 ELSE ReviewVariants(exp, k + 1, acc2)

\* GET /experiments/{experiment_name}/review
get_experiment_review(dir, experiment_name) ==
    IF experiment_name \notin DOMAIN dir THEN [status |-> "404"]
    ELSE LET exp == dir[experiment_name]
             counts == compute_confusion_counts(ScoreVariants(exp))
             acc == ReviewVariants(exp, 1, [err |-> "", samples |-> EmptyBuckets])
         IN IF acc.err # "" THEN [status |-> acc.err]
            ELSE [status |-> "200", name |-> exp.name, counts |-> counts,
                  samples |-> acc.samples]

\* sorted(...) of a set of names.
RECURSIVE SortedSeq(_)
SortedSeq(S) ==
    IF S = {} THEN <<>>
    ELSE LET m == CHOOSE x \in S : \A y \in S : x <= y IN <<m>> \o SortedSeq(S \ {m})

\* A first loop that keeps every experiment directory.
IncludedExperiments_All(dir) == SortedSeq(DOMAIN dir)

\* The experiments the first loop of get_experiments_review_all keeps; a
\* config.json that is not an object is read as {}.
IncludedExperiments(dir) ==
    SelectSeq(SortedSeq(DOMAIN dir),
              LAMBDA e :
                LET rd == IF dir[e].config.t = "dict"
                          THEN dir[e].config.refusal_detection ELSE JAbsent
                IN  (rd.t = "absent" \/ (rd.t = "str" /\ rd.s = "keyword")))

RECURSIVE SumCounts(_, _, _)
SumCounts(dir, included, k) ==
    IF k > Len(included) THEN ZeroConfusion
    ELSE AddConfusion(compute_confusion_counts(ScoreVariants(dir[included[k]])),
                      SumCounts(dir, included, k + 1))

\* The variants of all_outputs in file order.
SortedVariants_FileOrder(exp) == exp.variants

\* The variants of all_outputs in sorted(all_outputs.keys(), key=str) order.
SortedVariants(exp) ==
    LET names == SortedSeq({exp.variants[k].name : k \in 1..Len(exp.variants)})
    IN [j \in 1..Len(names) |->
          exp.variants[CHOOSE k \in 1..Len(exp.variants) : exp.variants[k].name = names[j]]]

\* `if seen < start` with the comparison off by one.
BeforeWindow_OffByOne(seen, start) == seen <= start

\* `if seen < start`: a matching sample before the requested window.
BeforeWindow(seen, start) == seen < start

\* The sample loop of the scan; st = [err, seen, out].  It ends at the end of
\* the samples, on a raise, or at the `break` taken when a matching sample is
\* met with the window already full.
RECURSIVE ScanSamples(_, _, _, _, _, _, _)
ScanSamples(e, v, idx, category_s, start, limit, st) ==
    IF idx > Len(v.samples.items) THEN st
    ELSE LET o == SampleOutcome(v, idx) IN
         IF o.kind = "skip" THEN ScanSamples(e, v, idx + 1, category_s, start, limit, st)
         ELSE IF o.kind = "raise" THEN [st EXCEPT !.err = "500"]
         ELSE IF category_s # "" /\ o.category # category_s
              THEN ScanSamples(e, v, idx + 1, category_s, start, limit, st)
         ELSE IF BeforeWindow(st.seen, start)
              THEN ScanSamples(e, v, idx + 1, category_s, start, limit,
                               [st EXCEPT !.seen = @ + 1])
         ELSE IF Len(st.out) >= limit THEN st
         ELSE ScanSamples(e, v, idx + 1, category_s, start, limit,
                [st EXCEPT !.seen = @ + 1,
                           !.out = Append(@, [experiment_name |-> e,
                                              variant |-> o.variant,
                                              input |-> o.input,
                                              output |-> o.output,
                                              matched_keywords |-> o.matched_keywords,
                                              category |-> o.category])])

\* The variant loop of the scan over the sorted variants vs of experiment e.
RECURSIVE ScanVariants(_, _, _, _, _, _, _)
ScanVariants(e, vs, k, category_s, start, limit, st) ==
    IF k > Len(vs) THEN st
    ELSE LET check == VariantCheck(vs[k]) IN
         IF check = "skip" THEN ScanVariants(e, vs, k + 1, category_s, start, limit, st)
         ELSE IF check # "ok" THEN [st EXCEPT !.err = check]
         ELSE LET st2 == ScanSamples(e, vs[k], 1, category_s, start, limit, st) IN
              IF st2.err # "" \/ Len(st2.out) >= limit THEN st2
              ELSE ScanVariants(e, vs, k + 1, category_s, start, limit, st2)

\* The experiment loop of the scan over the included experiments.
RECURSIVE ScanExperiments(_, _, _, _, _, _, _)
ScanExperiments(dir, included, k, category_s, start, limit, st) ==
    IF k > Len(included) THEN st
    ELSE LET exp == dir[included[k]]
             st2 == ScanVariants(exp.name, SortedVariants(exp), 1,
                                 category_s, start, limit, st)
         IN IF st2.err # "" \/ Len(st2.out) >= limit THEN st2
            ELSE ScanExperiments(dir, included, k + 1, category_s, start, limit, st2)

CeilDiv(a, b) == (a + b - 1) \div b

\* GET /experiments/review-all
get_experiments_review_all(exists, dir, category_s, page, limit) ==
    IF category_s \notin Categories THEN [status |-> "400"]
    ELSE IF ~exists THEN
        [status |-> "200",
         category |-> category_s,
         counts |-> ZeroConfusion,
         num_experiments |-> 0,
         samples |-> <<>>,
         total |-> 0,
         page |-> page,
         limit |-> limit,
         totalPages |-> 1]
    ELSE LET included == IncludedExperiments(dir)
             counts_total == SumCounts(dir, included, 1)
             total == IF category_s # "" THEN counts_total[category_s]
                      ELSE counts_total.tp + counts_total.fp
                           + counts_total.fn + counts_total.tn
         IN IF limit < 1 \/ page < 1 THEN [status |-> "400"]
            ELSE LET start == (page - 1) * limit
                     st == ScanExperiments(dir, included, 1, category_s, start, limit,
                                           [err |-> "", seen |-> 0, out |-> <<>>])
                 IN IF st.err # "" THEN [status |-> st.err]
                    ELSE [status |-> "200",
                          category |-> category_s,
                          counts |-> counts_total,
                          num_experiments |-> Len(included),
                          samples |-> st.out,
                          total |-> total,
                          page |-> page,
                          limit |-> limit,
                          totalPages |-> IF CeilDiv(total, limit) > 1
                                         THEN CeilDiv(total, limit) ELSE 1]

InitReviewVars ==
    /\ experiments_dir = <<>>
    /\ experiments_dir_exists = TRUE
    /\ rv_request = NoResult
    /\ rv_response = NoResult

InitReview ==
    /\ experiments_dir \in ReviewDisks
    /\ experiments_dir_exists = TRUE
    /\ rv_request = NoResult
    /\ rv_response = NoResult

\* One request to the single-experiment review endpoint.
GetExperimentReview ==
    /\ rv_request = NoResult
    /\ \E name \in ExperimentNames :
         /\ rv_request' = [endpoint |-> "review", experiment_name |-> name]
         /\ rv_response' = get_experiment_review(experiments_dir, name)
    /\ UNCHANGED <<experiments_dir, experiments_dir_exists>>

\* One request to the cross-experiment review endpoint.
GetExperimentsReviewAll ==
    /\ rv_request = NoResult
    /\ \E category \in Categories, page \in Pages, limit \in 1..MaxLimit :
         /\ rv_request' = [endpoint |-> "review-all", category |-> category,
                           page |-> page, limit |-> limit]
         /\ rv_response' =
              get_experiments_review_all(experiments_dir_exists, experiments_dir,
                                         category, page, limit)
    /\ UNCHANGED <<experiments_dir, experiments_dir_exists>>

NextReview ==
    \/ GetExperimentReview /\ UNCHANGED <<lockVars, progressVars, paginateVars, validationVars, queryVars, sweepVars, workerVars>>
    \/ GetExperimentsReviewAll /\ UNCHANGED <<lockVars, progressVars, paginateVars, validationVars, queryVars, sweepVars, workerVars>>

(***************************************************************************)
(* The review endpoints over artifacts that break the scorer's contract     *)
(* and over requests with a page or a limit below 1                         *)
(***************************************************************************)

\* How the per_sample array of a variant relates to its outputs: "ok" one
\* entry per sample, "short" the last entry missing.
PerSampleShapes == {"ok", "short"}

\* MkVariant with the per_sample array in the given shape.
MkVariantShaped(e, v, sa, kinds, shape) ==
    LET variant == MkVariant(e, v, sa, kinds)
    IN  IF shape = "ok" THEN variant
        ELSE [variant EXCEPT !.score.per_sample.items =
                 SubSeq(@, 1, Len(@) - 1)]

ShapedSlotContents(e, v, n) ==
    IF n = 0 THEN {NoVariant}
    ELSE {MkVariantShaped(e, v, sa, kinds, shape) :
            sa \in BOOLEAN, kinds \in [1..n -> {"plain", "refusal"}],
            shape \in PerSampleShapes}

\* Experiment directories whose variants may have a per_sample array shorter
\* than their outputs.
ShapedDisks ==
    UNION {
        {[e \in ExperimentNames |-> MkExperiment(e, IF e = 1 THEN o1 ELSE o2)] :
            o1 \in UNION {VariantOrders(a, b) :
                            a \in ShapedSlotContents(1, 1, l[<<1, 1>>]),
                            b \in ShapedSlotContents(1, 2, l[<<1, 2>>])},
            o2 \in UNION {VariantOrders(a, b) :
                            a \in ShapedSlotContents(2, 1, l[<<2, 1>>]),
                            b \in {NoVariant}}}
        : l \in SlotSizes}

\* Pages and limits of the requests, 0 among them.
AnyPages == 0..2

AnyLimits == 0..MaxLimit

\* EXPERIMENTS_DIR holds such experiments, or does not exist.
InitShaped ==
    /\ \/ experiments_dir \in ShapedDisks /\ experiments_dir_exists = TRUE
       \/ experiments_dir = <<>> /\ experiments_dir_exists = FALSE
    /\ rv_request = NoResult
    /\ rv_response = NoResult

\* One request to the cross-experiment review endpoint with a page or a
\* limit below 1.
GetExperimentsReviewAllBelowOne ==
    /\ rv_request = NoResult
    /\ \E category \in Categories, page \in AnyPages, limit \in AnyLimits :
         /\ page < 1 \/ limit < 1
         /\ rv_request' = [endpoint |-> "review-all", category |-> category,
                           page |-> page, limit |-> limit]
         /\ rv_response' =
              get_experiments_review_all(experiments_dir_exists, experiments_dir,
                                         category, page, limit)
    /\ UNCHANGED <<experiments_dir, experiments_dir_exists>>

NextShaped ==
    \/ GetExperimentReview /\ UNCHANGED <<lockVars, progressVars, paginateVars, validationVars, queryVars, sweepVars, workerVars>>
    \/ GetExperimentsReviewAll /\ UNCHANGED <<lockVars, progressVars, paginateVars, validationVars, queryVars, sweepVars, workerVars>>
    \/ GetExperimentsReviewAllBelowOne /\ UNCHANGED <<lockVars, progressVars, paginateVars, validationVars, queryVars, sweepVars, workerVars>>

(***************************************************************************)
(* The review endpoints over experiments that declare a detection method    *)
(***************************************************************************)

\* config.json of an experiment: no refusal_detection, "keyword", "llm", or
\* a file that is not an object.
ConfigValues ==
    {[t |-> "dict", refusal_detection |-> JAbsent],
     [t |-> "dict", refusal_detection |-> JStr("keyword")],
     [t |-> "dict", refusal_detection |-> JStr("llm")],
     JList}

\* The configs of the two experiments: one of them declares nothing.
ConfigPairs ==
    {c \in [ExperimentNames -> ConfigValues] :
        \/ c[2] = [t |-> "dict", refusal_detection |-> JAbsent]
        \/ /\ c[1] = [t |-> "dict", refusal_detection |-> JAbsent]
           /\ c[2] = [t |-> "dict", refusal_detection |-> JStr("llm")]}

\* Experiment directories with well-formed artifacts, variants that should
\* activate, and any of these configs.
ScopeDisks ==
    {[e \in ExperimentNames |-> [d[e] EXCEPT !.config = c[e]]] :
        d \in {x \in ShapedDisks :
                 \A e \in ExperimentNames : \A k \in 1..Len(x[e].variants) :
                     /\ Len(x[e].variants[k].score.per_sample.items)
                          = Len(x[e].variants[k].samples.items)
                     /\ x[e].variants[k].meta.should_activate = JBool(TRUE)},
        c \in ConfigPairs}

InitScope ==
    /\ experiments_dir \in ScopeDisks
    /\ experiments_dir_exists = TRUE
    /\ rv_request = NoResult
    /\ rv_response = NoResult

InitLockVars ==
    /\ current_host = "node1"
    /\ proc_table = {}
    /\ lock_file = [k |-> "absent"]
    /\ lock_info = NoResult

InitLock ==
    /\ current_host \in Hosts
    /\ proc_table \in SUBSET Pids
    /\ lock_file = [k |-> "absent"]
    /\ lock_info = NoResult

\* The experiment pipeline (or anything else) rewrites or removes the lock file.
WriteLock ==
    /\ \E f \in LockFiles : lock_file' = f
    /\ lock_info' = NoResult
    /\ UNCHANGED <<current_host, proc_table>>

\* A process starts or exits on this host.
ProcChange ==
    /\ \E p \in Pids :
         proc_table' = IF p \in proc_table THEN proc_table \ {p} ELSE proc_table \cup {p}
    /\ lock_info' = NoResult
    /\ UNCHANGED <<current_host, lock_file>>

\* One call of inspect_running_lock on the current disk state.
InspectRunningLock ==
    /\ lock_info' = inspect_running_lock(lock_file, current_host, proc_table)
    /\ UNCHANGED <<current_host, proc_table, lock_file>>

NextLock ==
    \/ WriteLock /\ UNCHANGED <<progressVars, reviewVars, paginateVars, validationVars, queryVars, sweepVars, workerVars>>
    \/ ProcChange /\ UNCHANGED <<progressVars, reviewVars, paginateVars, validationVars, queryVars, sweepVars, workerVars>>
    \/ InspectRunningLock /\ UNCHANGED <<progressVars, reviewVars, paginateVars, validationVars, queryVars, sweepVars, workerVars>>

(***************************************************************************)
(* Pagination (paginate)                                                   *)
(***************************************************************************)

\* Longest list that is paginated.
MaxItems == 3

\* The lists paginate is run on.
ItemValues == {"a", "b"}

ItemLists == UNION {[1..n -> ItemValues] : n \in 0..MaxItems}

\* Pages and limits of the requests; they include values below 1.
PageValues == -1..(MaxItems + 2)

LimitValues == -1..MaxLimit

\* Python's items[start:end] for 0 <= start <= end: the indices are clamped
\* to the list.
Slice(items, start, end) ==
    IF start >= Len(items) THEN <<>>
    ELSE SubSeq(items, start + 1, IF end < Len(items) THEN end ELSE Len(items))

\* start = page * limit: the window of the page after the one asked for.
PageStart_OneBased(page, limit) == page * limit

\* start = (page - 1) * limit
PageStart(page, limit) == (page - 1) * limit

paginate(items, page, limit) ==
    LET total == Len(items)
        start == PageStart(page, limit)
        end == start + limit
    IN  IF limit < 1 THEN
            [status |-> "400", detail |-> "limit must be at least 1"]
        ELSE IF page < 1 THEN
            [status |-> "400", detail |-> "page must be at least 1"]
        ELSE
            [status |-> "200",
             samples |-> Slice(items, start, end),
             total |-> total,
             page |-> page,
             limit |-> limit,
             totalPages |-> LET n == (total + limit - 1) \div limit
                            IN  IF n > 1 THEN n ELSE 1]

InitPaginateVars ==
    /\ pag_items = <<>>
    /\ pag_limit = 1
    /\ pag_page = 1
    /\ pag_concat = <<>>
    /\ pag_response = NoResult

\* A client about to walk the pages of a list with a fixed limit.
InitPaginate ==
    /\ pag_items \in ItemLists
    /\ pag_limit \in 1..MaxLimit
    /\ pag_page = 1
    /\ pag_concat = <<>>
    /\ pag_response = NoResult

\* The client asks for the next page and appends its samples to what it has.
PaginateNextPage ==
    /\ pag_page \in PageValues
    /\ LET response == paginate(pag_items, pag_page, pag_limit)
       IN  /\ pag_response' = response
           /\ pag_concat' = pag_concat \o response.samples
    /\ pag_page' = pag_page + 1
    /\ UNCHANGED <<pag_items, pag_limit>>

\* A request with a page or a limit below 1.
PaginateReject ==
    /\ \E page \in PageValues, limit \in LimitValues :
         /\ page < 1 \/ limit < 1
         /\ pag_response' = paginate(pag_items, page, limit)
    /\ UNCHANGED <<pag_items, pag_limit, pag_page, pag_concat>>

NextPaginate ==
    \/ PaginateNextPage /\ UNCHANGED <<lockVars, progressVars, reviewVars, validationVars, queryVars, sweepVars, workerVars>>
    \/ PaginateReject /\ UNCHANGED <<lockVars, progressVars, reviewVars, validationVars, queryVars, sweepVars, workerVars>>

(***************************************************************************)
(* Validation store (post_validation, load_validation_entries, write_json) *)
(***************************************************************************)

\* Request threads of the server that run post_validation.
NumThreads == 2

\* Calls of post_validation received in a behaviour.
MaxCalls == 2

Threads == 1..NumThreads

Datasets == {"train", "test", "dev"}

SampleIndexes == {0, 1}

\* One result the handler accepts and one it rejects.
Results == {"good", "fine"}

NotesValues == {"n"}

\* ValidationWriteRequest
Payloads ==
    [sample_index : SampleIndexes, dataset : Datasets, result : Results,
     notes : NotesValues]

\* A path that does not exist.
NoFile == [k |-> "absent"]

\* A file holding the JSON text of a list; json.dump followed by json.load
\* gives back a list of dicts of strings and integers unchanged.
ListFile(data) == [k |-> "list", data |-> data]

\* A file opened for writing whose JSON text has not all been written: it is
\* empty or holds a prefix of the text.
PartialFile == [k |-> "partial"]

VALIDATION_PATH == "validation.json"

\* write_json writes straight into the file it is given.
tmp_path_InPlace(path) == path

\* path.with_suffix(path.suffix + ".tmp")
tmp_path(path) == path \o ".tmp"

\* The file at a path is given a new content.
WriteFile(path, content) ==
    IF path = VALIDATION_PATH
    THEN validation_json' = content /\ UNCHANGED validation_tmp
    ELSE validation_tmp' = content /\ UNCHANGED validation_json

\* validation_lock held by nobody.
Unlocked == 0

\* validation_lock.acquire() that never waits.
LockFree_NoExclusion(lock) == TRUE

\* validation_lock.acquire() returns only while nobody holds the lock.
LockFree(lock) == lock = Unlocked

load_validation_entries(file) ==
    IF file.k = "absent" THEN [ok |-> TRUE, entries |-> <<>>]
    ELSE IF file.k = "partial" THEN
        [ok |-> FALSE, status |-> "500", detail |-> "JSONDecodeError"]
    ELSE IF file.k # "list" THEN
        [ok |-> FALSE, status |-> "500", detail |-> "validation.json must be a list"]
    ELSE [ok |-> TRUE, entries |-> file.data]

SameKey(existing, payload) ==
    /\ existing.dataset = payload.dataset
    /\ existing.sample_index = payload.sample_index

\* A merge that drops the entry of the same key and appends the new one.
UpsertEntry_MoveToEnd(entries, entry) ==
    Append(SelectSeq(entries, LAMBDA existing : ~SameKey(existing, entry)), entry)

\* The merge that appends the entry whatever the list holds.
UpsertEntry_AlwaysAppend(entries, entry) == Append(entries, entry)

\* The merge of post_validation: the first entry of the same key is replaced
\* in place, an entry of a new key is appended.
UpsertEntry(entries, entry) ==
    LET matches == {i \in 1..Len(entries) : SameKey(entries[i], entry)}
    IN  IF matches = {} THEN Append(entries, entry)
        ELSE LET index == CHOOSE i \in matches : \A j \in matches : i <= j
             IN  [entries EXCEPT ![index] = entry]

InitValidationVars ==
    /\ validation_json = NoFile
    /\ validation_tmp = NoFile
    /\ validation_lock = Unlocked
    /\ val_pc = [t \in Threads |-> "idle"]
    /\ val_entry = [t \in Threads |-> NoResult]
    /\ val_entries = [t \in Threads |-> NoResult]
    /\ val_response = NoResult
    /\ val_clock = 0
    /\ val_calls = 0
    /\ val_log = <<>>
    /\ val_read = NoResult

\* post_validation, a payload that fails the dataset or the result check.
PostValidationReject(t) ==
    /\ val_pc[t] = "idle"
    /\ val_calls < MaxCalls
    /\ \E payload \in Payloads :
         /\ payload.dataset \notin {"train", "test"} \/ payload.result \notin {"good", "bad"}
         /\ val_response' =
              [thread |-> t, response |->
                  IF payload.dataset \notin {"train", "test"}
                  THEN [status |-> "400", detail |-> "dataset must be train or test"]
                  ELSE [status |-> "400", detail |-> "result must be good or bad"]]
    /\ val_calls' = val_calls + 1
    /\ UNCHANGED <<validation_json, validation_tmp, validation_lock, val_pc,
                   val_entry, val_entries, val_clock, val_log, val_read>>

\* post_validation up to the lock: the payload passes both checks and the
\* entry is stamped with the wall clock, which has advanced since it was
\* last read.
PostValidationAccept(t) ==
    /\ val_pc[t] = "idle"
    /\ val_calls < MaxCalls
    /\ \E payload \in Payloads, now \in {val_clock + 1} :
         /\ payload.dataset \in {"train", "test"}
         /\ payload.result \in {"good", "bad"}
         /\ val_clock' = now
         /\ val_entry' =
              [val_entry EXCEPT ![t] =
                  [sample_index |-> payload.sample_index,
                   dataset |-> payload.dataset,
                   result |-> payload.result,
                   notes |-> payload.notes,
                   reviewed_at |-> now]]
    /\ val_pc' = [val_pc EXCEPT ![t] = "acquire"]
    /\ val_calls' = val_calls + 1
    /\ UNCHANGED <<validation_json, validation_tmp, validation_lock,
                   val_entries, val_response, val_log, val_read>>

\* with validation_lock:
AcquireValidationLock(t) ==
    /\ val_pc[t] = "acquire"
    /\ LockFree(validation_lock)
    /\ validation_lock' = t
    /\ val_pc' = [val_pc EXCEPT ![t] = "load"]
    /\ UNCHANGED <<validation_json, validation_tmp, val_entry, val_entries,
                   val_response, val_clock, val_calls, val_log, val_read>>

\* entries = load_validation_entries(); a store that is not a list raises
\* out of the with block, which releases the lock.
LoadValidationEntries(t) ==
    /\ val_pc[t] = "load"
    /\ LET loaded == load_validation_entries(validation_json)
       IN  IF loaded.ok THEN
               /\ val_entries' = [val_entries EXCEPT ![t] = loaded.entries]
               /\ val_pc' = [val_pc EXCEPT ![t] = "open"]
               /\ UNCHANGED <<validation_lock, val_entry, val_response>>
           ELSE
               /\ val_response' =
                    [thread |-> t, response |->
                        [status |-> loaded.status, detail |-> loaded.detail]]
               /\ val_pc' = [val_pc EXCEPT ![t] = "idle"]
               /\ val_entry' = [val_entry EXCEPT ![t] = NoResult]
               /\ validation_lock' = Unlocked
               /\ UNCHANGED val_entries
    /\ UNCHANGED <<validation_json, validation_tmp, val_clock, val_calls, val_log,
                   val_read>>

\* The merge, then write_json up to open(tmp_path, "w"): the temporary file
\* exists and is empty, and json.dump writes its text piece by piece.
OpenValidationTmp(t) ==
    /\ val_pc[t] = "open"
    /\ val_entries' = [val_entries EXCEPT ![t] = UpsertEntry(val_entries[t], val_entry[t])]
    /\ WriteFile(tmp_path(VALIDATION_PATH), PartialFile)
    /\ val_pc' = [val_pc EXCEPT ![t] = "dump"]
    /\ UNCHANGED <<validation_lock, val_entry, val_response, val_clock, val_calls,
                   val_log, val_read>>

\* write_json, the end of json.dump and of the with block: the temporary
\* file holds the whole text of the merged list.
DumpValidationTmp(t) ==
    /\ val_pc[t] = "dump"
    /\ WriteFile(tmp_path(VALIDATION_PATH), ListFile(val_entries[t]))
    /\ val_pc' = [val_pc EXCEPT ![t] = "replace"]
    /\ UNCHANGED <<validation_lock, val_entry, val_entries, val_response,
                   val_clock, val_calls, val_log, val_read>>

\* The second half of write_json: os.replace(tmp_path, path).  With no
\* temporary file to move it raises and the with block releases the lock.
ReplaceValidationJson(t) ==
    /\ val_pc[t] = "replace"
    /\ IF tmp_path(VALIDATION_PATH) = VALIDATION_PATH THEN
           \* os.replace of a file by itself
           /\ val_log' = Append(val_log, val_entry[t])
           /\ val_pc' = [val_pc EXCEPT ![t] = "release"]
           /\ UNCHANGED <<validation_json, validation_tmp, validation_lock,
                          val_entry, val_entries, val_response>>
       ELSE IF validation_tmp.k = "absent" THEN
           /\ val_response' =
                [thread |-> t, response |->
                    [status |-> "500", detail |-> "FileNotFoundError"]]
           /\ val_pc' = [val_pc EXCEPT ![t] = "idle"]
           /\ val_entry' = [val_entry EXCEPT ![t] = NoResult]
           /\ val_entries' = [val_entries EXCEPT ![t] = NoResult]
           /\ validation_lock' = Unlocked
           /\ UNCHANGED <<validation_json, validation_tmp, val_log>>
       ELSE
           /\ validation_json' = validation_tmp
           /\ validation_tmp' = NoFile
           /\ val_log' = Append(val_log, val_entry[t])
           /\ val_pc' = [val_pc EXCEPT ![t] = "release"]
           /\ UNCHANGED <<validation_lock, val_entry, val_entries, val_response>>
    /\ UNCHANGED <<val_clock, val_calls, val_read>>

\* The end of the with block and the return.
ReleaseValidationLock(t) ==
    /\ val_pc[t] = "release"
    /\ validation_lock' = Unlocked
    /\ val_response' =
         [thread |-> t, response |->
             [status |-> "200", success |-> TRUE, entry |-> val_entry[t]]]
    /\ val_pc' = [val_pc EXCEPT ![t] = "idle"]
    /\ val_entry' = [val_entry EXCEPT ![t] = NoResult]
    /\ val_entries' = [val_entries EXCEPT ![t] = NoResult]
    /\ UNCHANGED <<validation_json, validation_tmp, val_clock, val_calls, val_log,
                   val_read>>

\* A reader (get_validation_queue, get_validation_stats,
\* get_validation_review) loads the entries; it takes no lock.  The file it
\* opens is the one the path names at that moment.
ReadValidationEntries ==
    /\ val_read = NoResult
    /\ val_read' = [result |-> load_validation_entries(validation_json),
                    written |-> Len(val_log)]
    /\ UNCHANGED <<validation_json, validation_tmp, validation_lock, val_pc,
                   val_entry, val_entries, val_response, val_clock, val_calls,
                   val_log>>

NextValidation ==
    \/ (\E t \in Threads : PostValidationReject(t)) /\ UNCHANGED <<lockVars, progressVars, reviewVars, paginateVars, queryVars, sweepVars, workerVars>>
    \/ (\E t \in Threads : PostValidationAccept(t)) /\ UNCHANGED <<lockVars, progressVars, reviewVars, paginateVars, queryVars, sweepVars, workerVars>>
    \/ (\E t \in Threads : AcquireValidationLock(t)) /\ UNCHANGED <<lockVars, progressVars, reviewVars, paginateVars, queryVars, sweepVars, workerVars>>
    \/ (\E t \in Threads : LoadValidationEntries(t)) /\ UNCHANGED <<lockVars, progressVars, reviewVars, paginateVars, queryVars, sweepVars, workerVars>>
    \/ (\E t \in Threads : OpenValidationTmp(t)) /\ UNCHANGED <<lockVars, progressVars, reviewVars, paginateVars, queryVars, sweepVars, workerVars>>
    \/ (\E t \in Threads : DumpValidationTmp(t)) /\ UNCHANGED <<lockVars, progressVars, reviewVars, paginateVars, queryVars, sweepVars, workerVars>>
    \/ (\E t \in Threads : ReplaceValidationJson(t)) /\ UNCHANGED <<lockVars, progressVars, reviewVars, paginateVars, queryVars, sweepVars, workerVars>>
    \/ (\E t \in Threads : ReleaseValidationLock(t)) /\ UNCHANGED <<lockVars, progressVars, reviewVars, paginateVars, queryVars, sweepVars, workerVars>>
    \/ ReadValidationEntries /\ UNCHANGED <<lockVars, progressVars, reviewVars, paginateVars, queryVars, sweepVars, workerVars>>

(***************************************************************************)
(* Validation query (unique_validation_entries, get_validation_review)     *)
(***************************************************************************)

\* Longest stored list the query is run on.
MaxStored == 2

\* reviewed_at stamps: n stands for the n-th ISO-8601 UTC text in increasing
\* order, so the order of the texts as strings is the order of the numbers.
Stamps == 1..MaxStored

StoredEntryValues ==
    [sample_index : SampleIndexes, dataset : {"train", "test"},
     result : {"good", "bad"}, notes : NotesValues, reviewed_at : Stamps]

StoredLists == UNION {[1..n -> StoredEntryValues] : n \in 0..MaxStored}

\* load_dataset_samples: base_train.json holds samples 0 and 1, base_test.json
\* holds sample 0.
DatasetIndexes(dataset) == IF dataset = "train" THEN {0, 1} ELSE {0}

\* by_key[(dataset, sample_index)] = entry, for each entry in list order:
\* the entry by_key holds for a key is the last one in the list.
KeptEntry(entries, key) ==
    entries[CHOOSE i \in 1..Len(entries) :
                /\ <<entries[i].dataset, entries[i].sample_index>> = key
                /\ \A j \in 1..Len(entries) :
                       <<entries[j].dataset, entries[j].sample_index>> = key => j <= i]

RECURSIVE ByKeyValues(_, _)
\* list(by_key.values()): one value per key, in the order the keys were
\* first inserted.
ByKeyValues(entries, n) ==
    IF n = 0 THEN <<>>
    ELSE LET before == ByKeyValues(entries, n - 1)
             entry == entries[n]
             key == <<entry.dataset, entry.sample_index>>
         IN  IF entry.dataset \notin {"train", "test"} THEN before
             ELSE IF \E j \in 1..(n - 1) :
                        <<entries[j].dataset, entries[j].sample_index>> = key
                  THEN before
                  ELSE Append(before, KeptEntry(entries, key))

RECURSIVE SortByReviewedAtDesc(_)
\* values.sort(key=reviewed_at, reverse=True): a stable sort, entries of
\* equal reviewed_at keep their order.
SortByReviewedAtDesc(values) ==
    IF values = <<>> THEN <<>>
    ELSE LET best == CHOOSE i \in 1..Len(values) :
                        /\ \A j \in 1..Len(values) :
                               values[j].reviewed_at <= values[i].reviewed_at
                        /\ \A j \in 1..(i - 1) :
                               values[j].reviewed_at < values[i].reviewed_at
             rest == [j \in 1..(Len(values) - 1) |->
                         IF j < best THEN values[j] ELSE values[j + 1]]
         IN  <<values[best]>> \o SortByReviewedAtDesc(rest)

unique_validation_entries(entries) ==
    SortByReviewedAtDesc(ByKeyValues(entries, Len(entries)))

RECURSIVE ReviewRows(_, _, _)
\* The rows loop of get_validation_review.
ReviewRows(entries, dataset, result) ==
    IF entries = <<>> THEN <<>>
    ELSE LET entry == Head(entries)
             rest == ReviewRows(Tail(entries), dataset, result)
         IN  IF entry.dataset \notin {"train", "test"} THEN rest
             ELSE IF dataset # "all" /\ entry.dataset # dataset THEN rest
             ELSE IF result # "all" /\ entry.result # result THEN rest
             ELSE IF entry.sample_index \notin DatasetIndexes(entry.dataset) THEN rest
             ELSE <<[dataset |-> entry.dataset,
                     sample_index |-> entry.sample_index,
                     result |-> entry.result,
                     notes |-> entry.notes,
                     reviewed_at |-> entry.reviewed_at]>> \o rest

\* GET /validation/review with an empty search.
get_validation_review(file, dataset, result, page, limit) ==
    IF dataset \notin {"all", "train", "test"} THEN
        [status |-> "400", detail |-> "dataset must be all, train, or test"]
    ELSE IF result \notin {"all", "good", "bad"} THEN
        [status |-> "400", detail |-> "result must be all, good, or bad"]
    ELSE LET loaded == load_validation_entries(file)
         IN  IF ~loaded.ok THEN [status |-> loaded.status, detail |-> loaded.detail]
             ELSE paginate(ReviewRows(unique_validation_entries(loaded.entries),
                                      dataset, result),
                           page, limit)

QueryRequests ==
    [dataset : {"all", "train", "dev"}, result : {"all", "good", "fine"},
     page : {1}, limit : {MaxStored}]

InitQueryVars ==
    /\ q_store = NoFile
    /\ q_request = NoResult
    /\ q_response = NoResult

\* A validation.json holding any list of entries, whoever wrote it.
InitQuery ==
    /\ q_store \in {ListFile(l) : l \in StoredLists}
    /\ q_request = NoResult
    /\ q_response = NoResult

GetValidationReview ==
    /\ q_request = NoResult
    /\ \E request \in QueryRequests :
         /\ request.dataset \in {"all", "train", "test"}
         /\ request.result \in {"all", "good", "bad"}
         /\ q_request' = request
         /\ q_response' = get_validation_review(q_store, request.dataset, request.result,
                                                request.page, request.limit)
    /\ UNCHANGED q_store

GetValidationReviewReject ==
    /\ q_request = NoResult
    /\ \E request \in QueryRequests :
         /\ request.dataset \notin {"all", "train", "test"}
              \/ request.result \notin {"all", "good", "bad"}
         /\ q_request' = request
         /\ q_response' = get_validation_review(q_store, request.dataset, request.result,
                                                request.page, request.limit)
    /\ UNCHANGED q_store

NextQuery ==
    \/ GetValidationReview /\ UNCHANGED <<lockVars, progressVars, reviewVars, paginateVars, validationVars, sweepVars, workerVars>>
    \/ GetValidationReviewReject /\ UNCHANGED <<lockVars, progressVars, reviewVars, paginateVars, validationVars, sweepVars, workerVars>>

(***************************************************************************)
(* Varying sweep keys (canonical_progress_arg_value,                        *)
(* compute_varying_sweep_keys)                                              *)
(***************************************************************************)

\* Largest number of combinations the keys are computed over.
MaxConfigs == 2

\* The keys of a combination, in the order its dict lists them.
SweepKeyOrder == <<"experiment", "lora_r", "tags">>

SweepKeys == SeqRange(SweepKeyOrder)

\* A JSON list of one integer.
JListOf(n) == [t |-> "list", items |-> <<n>>]

\* The values a key can take in a combination; JAbsent: the combination
\* does not have the key.
KeyValues(key) ==
    CASE key = "experiment" -> {JStr("A"), JStr("B"), JAbsent}
      [] key = "lora_r" -> {JInt(8), JInt(16), JAbsent}
      [] OTHER -> {JListOf(1), JListOf(2), JStr("[1]"), JAbsent}

SweepConfigs ==
    {c \in [SweepKeys -> UNION {KeyValues(k) : k \in SweepKeys}] :
        \A k \in SweepKeys : c[k] \in KeyValues(k)}

SweepCombinations == UNION {[1..n -> SweepConfigs] : n \in 0..MaxConfigs}

\* The key orders of the sweep's `parameters`.
SweepParameterOrders == {<<>>, <<"experiment", "lora_r">>, <<"tags", "lora_r">>}

\* json.dumps(value, sort_keys=True, separators=(",", ":")) of a list of one
\* integer.
JsonDumps(value) == IF value.items = <<1>> THEN "[1]" ELSE "[2]"

canonical_progress_arg_value(value) ==
    IF value.t \in {"null", "str", "int", "float", "bool"} THEN value
    ELSE JStr(JsonDumps(value))

RECURSIVE AppendNewKeys(_, _, _)
\* The inner loop over config.keys(): the keys of the config from the n-th
\* on that are new are appended to parameter_order.
AppendNewKeys(order, config, n) ==
    IF n > Len(SweepKeyOrder) THEN order
    ELSE LET key == SweepKeyOrder[n]
         IN  IF config[key] = JAbsent \/ key = "experiment" \/ key \in SeqRange(order)
             THEN AppendNewKeys(order, config, n + 1)
             ELSE AppendNewKeys(Append(order, key), config, n + 1)

RECURSIVE ParameterOrder(_, _, _)
\* parameter_order after the loop over the combinations from the k-th on.
ParameterOrder(order, combos, k) ==
    IF k > Len(combos) THEN order
    ELSE ParameterOrder(AppendNewKeys(order, combos[k], 1), combos, k + 1)

\* The set `values` built for a key.
CanonicalValues(key, combos) ==
    {IF combos[k][key] = JAbsent THEN JStr("__MISSING__")
     ELSE canonical_progress_arg_value(combos[k][key]) : k \in 1..Len(combos)}

compute_varying_sweep_keys(parameters, combos) ==
    IF combos = <<>> THEN <<>>
    ELSE LET start == SelectSeq(parameters, LAMBDA key : key # "experiment")
             parameter_order == ParameterOrder(start, combos, 1)
         IN  SelectSeq(parameter_order,
                       LAMBDA key : Cardinality(CanonicalValues(key, combos)) > 1)

InitSweepVars ==
    /\ sweep_parameters = <<>>
    /\ sweep_combinations = <<>>
    /\ varying_arg_keys = NoResult

InitSweep ==
    /\ sweep_parameters \in SweepParameterOrders
    /\ sweep_combinations \in SweepCombinations
    /\ varying_arg_keys = NoResult

ComputeVaryingSweepKeys ==
    /\ varying_arg_keys = NoResult
    /\ varying_arg_keys' =
         [keys |-> compute_varying_sweep_keys(sweep_parameters, sweep_combinations)]
    /\ UNCHANGED <<sweep_parameters, sweep_combinations>>

NextSweep ==
    ComputeVaryingSweepKeys
        /\ UNCHANGED <<lockVars, progressVars, reviewVars, paginateVars, validationVars, queryVars, workerVars>>

(***************************************************************************)
(* get_progress over combinations whose running.lock is malformed.         *)
(***************************************************************************)

\* Malformed lock files: a file of size 0, bytes that are not UTF-8, text
\* that is not JSON, a JSON array, and objects without a usable hostname or
\* without a positive integer pid (absent, not numeric, zero, 1e999).
MalformedLockFiles ==
    {[k |-> "empty"], [k |-> "undecodable"], [k |-> "text"], [k |-> "json", v |-> JList]}
    \cup {[k |-> "json", v |-> [t |-> "obj", hostname |-> hp[1], pid |-> hp[2]]] :
            hp \in {<<JAbsent, JInt(1)>>, <<JStr("node1"), JAbsent>>,
                    <<JStr("node1"), JStr("abc")>>, <<JStr("node1"), JInt(0)>>,
                    <<JStr("node1"), JInf>>}}

\* One iteration of the loop over combinations, on a combination whose
\* running.lock is malformed and whose inspection returns.
ProgressStepMalformed ==
    /\ pg_pc = "loop"
    /\ Len(rows) < Len(combinations)
    /\ LET idx == Len(rows)
           cfg == combinations[idx + 1]
       IN \E disk \in SUBSET ArtifactPaths(idx, cfg), file \in MalformedLockFiles,
             procs \in ProgressProcTables :
            LET lock == inspect_running_lock(file, current_host, procs) IN
            /\ ~lock.raised
            /\ pg_disk' = pg_disk \cup disk
            /\ LET row == ProgressRow(idx, cfg, disk, lock) IN
               /\ rows' = Append(rows, row)
               /\ status_counts' =
                    [status_counts EXCEPT ![row.status] = status_counts[row.status] + 1]
    /\ UNCHANGED <<combinations, pg_pc, pg_response, pg_history>>

\* The same iteration when the inspection of the malformed lock raises: the
\* exception is not caught by get_progress and the request fails.
ProgressStepMalformedRaise ==
    /\ pg_pc = "loop"
    /\ Len(rows) < Len(combinations)
    /\ \E file \in MalformedLockFiles, procs \in ProgressProcTables :
         inspect_running_lock(file, current_host, procs).raised
    /\ pg_pc' = "failed"
    /\ pg_response' = [error |-> 500]
    /\ UNCHANGED <<combinations, pg_disk, rows, status_counts, pg_history>>

NextMalformed ==
    \/ ProgressStepMalformed /\ UNCHANGED <<lockVars, reviewVars, paginateVars, validationVars, queryVars, sweepVars, workerVars>>
    \/ ProgressStepMalformedRaise /\ UNCHANGED <<lockVars, reviewVars, paginateVars, validationVars, queryVars, sweepVars, workerVars>>
    \/ ProgressReturn /\ UNCHANGED <<lockVars, reviewVars, paginateVars, validationVars, queryVars, sweepVars, workerVars>>

(***************************************************************************)
(* The validation store used by one client after another: post_validation, *)
(* get_validation_stats and get_validation_queue on a store that starts     *)
(* empty.  The client is thread 1 of the store model above; q_request holds *)
(* the request it sent last and q_response the answer of a query.           *)
(***************************************************************************)

\* Calls of post_validation the client makes in a behaviour.
MaxSubmissions == 3

\* ValidationWriteRequest.sample_index is declared `int`: any integer passes.
StoreIndexes == {-1, 0}

StoreResults == {"good", "bad", "fine"}

StorePayloads ==
    [sample_index : StoreIndexes, dataset : Datasets, result : StoreResults,
     notes : NotesValues]

\* A check that looks at the dataset only.
ValidPayload_AnyResult(payload) == payload.dataset \in {"train", "test"}

\* The two checks at the head of post_validation.
ValidPayload(payload) ==
    /\ payload.dataset \in {"train", "test"}
    /\ payload.result \in {"good", "bad"}

\* post_validation, a payload that fails a check: HTTPException 400.
SubmitReject ==
    /\ val_pc[1] = "idle"
    /\ val_calls < MaxSubmissions
    /\ \E payload \in StorePayloads :
         /\ ~ValidPayload(payload)
         /\ q_request' = [endpoint |-> "post_validation", payload |-> payload]
         /\ val_response' =
              [thread |-> 1, response |->
                  IF payload.dataset \notin {"train", "test"}
                  THEN [status |-> "400", detail |-> "dataset must be train or test"]
                  ELSE [status |-> "400", detail |-> "result must be good or bad"]]
    /\ q_response' = NoResult
    /\ val_calls' = val_calls + 1
    /\ UNCHANGED <<validation_json, validation_tmp, validation_lock, val_pc,
                   val_entry, val_entries, val_clock, val_log, val_read, q_store>>

\* post_validation up to the lock, a payload that passes both checks: the
\* entry is built and stamped with the wall clock.
SubmitAccept ==
    /\ val_pc[1] = "idle"
    /\ val_calls < MaxSubmissions
    /\ \E payload \in StorePayloads, now \in {val_clock + 1} :
         /\ ValidPayload(payload)
         /\ q_request' = [endpoint |-> "post_validation", payload |-> payload]
         /\ val_clock' = now
         /\ val_entry' =
              [val_entry EXCEPT ![1] =
                  [sample_index |-> payload.sample_index,
                   dataset |-> payload.dataset,
                   result |-> payload.result,
                   notes |-> payload.notes,
                   reviewed_at |-> now]]
    /\ q_response' = NoResult
    /\ val_pc' = [val_pc EXCEPT ![1] = "acquire"]
    /\ val_calls' = val_calls + 1
    /\ UNCHANGED <<validation_json, validation_tmp, validation_lock,
                   val_entries, val_response, val_log, val_read, q_store>>

\* An accumulation that ignores the dataset of an entry.
CountEntries_AnyDataset(entries, dataset, result) ==
    Cardinality({i \in 1..Len(entries) : result = "all" \/ entries[i].result = result})

\* count(dataset, result) of get_validation_stats; "all" stands for None.
CountEntries(entries, dataset, result) ==
    Cardinality({i \in 1..Len(entries) :
                    /\ entries[i].dataset = dataset
                    /\ result = "all" \/ entries[i].result = result})

\* len(load_dataset_samples(dataset))
DatasetTotal(dataset) == Cardinality(DatasetIndexes(dataset))

StatsOf(entries, dataset) ==
    [total |-> DatasetTotal(dataset),
     reviewed |-> CountEntries(entries, dataset, "all"),
     good |-> CountEntries(entries, dataset, "good"),
     bad |-> CountEntries(entries, dataset, "bad")]

\* GET /validation/stats
get_validation_stats(file) ==
    LET loaded == load_validation_entries(file)
    IN  IF ~loaded.ok THEN [status |-> loaded.status, detail |-> loaded.detail]
        ELSE LET entries == unique_validation_entries(loaded.entries)
                 train == StatsOf(entries, "train")
                 test == StatsOf(entries, "test")
             IN  [status |-> "200",
                  overall |-> [total |-> train.total + test.total,
                               reviewed |-> train.reviewed + test.reviewed,
                               good |-> train.good + test.good,
                               bad |-> train.bad + test.bad],
                  train |-> train,
                  test |-> test]

\* A queue cut at the limit as given.
QueueLimit_Raw(limit) == limit

\* max(1, limit)
QueueLimit(limit) == IF limit > 1 THEN limit ELSE 1

\* GET /validation/queue; a sample is represented by its index.
get_validation_queue(file, dataset, limit) ==
    IF dataset \notin {"train", "test"} THEN
        [status |-> "400", detail |-> "dataset must be train or test"]
    ELSE LET loaded == load_validation_entries(file)
         IN  IF ~loaded.ok THEN [status |-> loaded.status, detail |-> loaded.detail]
             ELSE LET samples == SortedSeq(DatasetIndexes(dataset))
                      entries == unique_validation_entries(loaded.entries)
                      reviewed == {entries[i].sample_index :
                                      i \in {j \in 1..Len(entries) :
                                                entries[j].dataset = dataset}}
                      unreviewed == SelectSeq(samples, LAMBDA s : s \notin reviewed)
                  IN  [status |-> "200",
                       samples |-> Slice(unreviewed, 0, QueueLimit(limit)),
                       total |-> Len(samples),
                       reviewed |-> Cardinality(reviewed),
                       remaining |-> Max0(Len(samples) - Cardinality(reviewed))]

QueueLimits == {0, 2}

GetValidationStats ==
    /\ val_pc[1] = "idle"
    /\ q_request' = [endpoint |-> "get_validation_stats"]
    /\ q_response' = get_validation_stats(validation_json)
    /\ UNCHANGED <<validationVars, q_store>>

GetValidationQueue ==
    /\ val_pc[1] = "idle"
    /\ \E dataset \in Datasets, limit \in QueueLimits :
         /\ q_request' = [endpoint |-> "get_validation_queue", dataset |-> dataset,
                          limit |-> limit]
         /\ q_response' = get_validation_queue(validation_json, dataset, limit)
    /\ UNCHANGED <<validationVars, q_store>>

NextStore ==
    \/ SubmitReject /\ UNCHANGED <<lockVars, progressVars, reviewVars, paginateVars, sweepVars, workerVars>>
    \/ SubmitAccept /\ UNCHANGED <<lockVars, progressVars, reviewVars, paginateVars, sweepVars, workerVars>>
    \/ AcquireValidationLock(1) /\ UNCHANGED <<lockVars, progressVars, reviewVars, paginateVars, queryVars, sweepVars, workerVars>>
    \/ LoadValidationEntries(1) /\ UNCHANGED <<lockVars, progressVars, reviewVars, paginateVars, queryVars, sweepVars, workerVars>>
    \/ OpenValidationTmp(1) /\ UNCHANGED <<lockVars, progressVars, reviewVars, paginateVars, queryVars, sweepVars, workerVars>>
    \/ DumpValidationTmp(1) /\ UNCHANGED <<lockVars, progressVars, reviewVars, paginateVars, queryVars, sweepVars, workerVars>>
    \/ ReplaceValidationJson(1) /\ UNCHANGED <<lockVars, progressVars, reviewVars, paginateVars, queryVars, sweepVars, workerVars>>
    \/ ReleaseValidationLock(1) /\ UNCHANGED <<lockVars, progressVars, reviewVars, paginateVars, queryVars, sweepVars, workerVars>>
    \/ GetValidationStats /\ UNCHANGED <<lockVars, progressVars, reviewVars, paginateVars, sweepVars, workerVars>>
    \/ GetValidationQueue /\ UNCHANGED <<lockVars, progressVars, reviewVars, paginateVars, sweepVars, workerVars>>

(***************************************************************************)
(* get_progress asked again and again about one combination while the disk *)
(* changes between the requests: score files appear and disappear, the     *)
(* running.lock is rewritten or removed, the process it names starts or    *)
(* exits.  pg_disk, lock_file and proc_table are the disk state a request   *)
(* finds; pg_history records what each request found and answered.          *)
(***************************************************************************)

\* Requests served in a behaviour.
MaxRequests == 2

\* The sweep of the repeated requests: one combination, without defenses.
RepeatedSweep == <<CHOOSE cfg \in ExperimentConfigs : ~cfg.run_defense>>

\* A lock state kept from the first request on.
LockStateOnRequest_Cached(history, file, host, procs) ==
    IF history = <<>> THEN inspect_running_lock(file, host, procs)
    ELSE history[1].lock

\* The lock state a request works with: inspect_running_lock builds its
\* info from the file, the hostname and /proc at the time of the call; no
\* module state is read or written.
LockStateOnRequest(history, file, host, procs) ==
    inspect_running_lock(file, host, procs)

\* The API process runs on some host; the disk holds no lock and the process
\* the lock files name is running or not.
InitRepeatedLock ==
    /\ current_host \in Hosts
    /\ proc_table \in ProgressProcTables
    /\ lock_file = [k |-> "absent"]
    /\ lock_info = NoResult

InitRepeated ==
    /\ combinations = RepeatedSweep
    /\ pg_disk = {}
    /\ pg_pc = "loop"
    /\ rows = <<>>
    /\ status_counts = ZeroCounts
    /\ pg_response = NoResult
    /\ pg_history = <<>>

\* A score file of the combination is written or deleted.
ArtifactChange ==
    /\ \E path \in SeqRange(ScorePaths(0, combinations[1])) :
         pg_disk' = IF path \in pg_disk THEN pg_disk \ {path} ELSE pg_disk \cup {path}
    /\ UNCHANGED <<combinations, pg_pc, rows, status_counts, pg_response, pg_history>>
    /\ UNCHANGED lockVars

\* The running.lock of the combination is rewritten or removed.
LockChange ==
    /\ \E file \in ProgressLockFiles : file # lock_file /\ lock_file' = file
    /\ UNCHANGED <<current_host, proc_table, lock_info>>
    /\ UNCHANGED progressVars

\* The process the lock names starts or exits.
ProcessChange ==
    /\ \E procs \in ProgressProcTables : procs # proc_table /\ proc_table' = procs
    /\ UNCHANGED <<current_host, lock_file, lock_info>>
    /\ UNCHANGED progressVars

\* One whole get_progress request on the disk as it is.
ProgressRequest ==
    /\ Len(pg_history) < MaxRequests
    /\ LET lock == LockStateOnRequest(pg_history, lock_file, current_host, proc_table)
           answer ==
               IF lock.raised THEN [error |-> 500]
               ELSE LET row == ProgressRow(0, combinations[1], pg_disk, lock)
                    IN  [summary |->
                            ProgressSummary(<<row>>,
                                [ZeroCounts EXCEPT ![row.status] = 1]),
                         rows |-> <<row>>]
       IN  /\ pg_response' = answer
           /\ pg_history' =
                Append(pg_history,
                       [disk |-> pg_disk, file |-> lock_file, host |-> current_host,
                        procs |-> proc_table, lock |-> lock, response |-> answer])
    /\ UNCHANGED <<combinations, pg_disk, pg_pc, rows, status_counts>>
    /\ UNCHANGED lockVars

NextRepeated ==
    \/ ArtifactChange /\ UNCHANGED <<reviewVars, paginateVars, validationVars, queryVars, sweepVars, workerVars>>
    \/ LockChange /\ UNCHANGED <<reviewVars, paginateVars, validationVars, queryVars, sweepVars, workerVars>>
    \/ ProcessChange /\ UNCHANGED <<reviewVars, paginateVars, validationVars, queryVars, sweepVars, workerVars>>
    \/ ProgressRequest /\ UNCHANGED <<reviewVars, paginateVars, validationVars, queryVars, sweepVars, workerVars>>

(***************************************************************************)
(* One experiment read through both review endpoints: a client asks        *)
(* get_experiment_review for it, then pages through                         *)
(* get_experiments_review_all with no category and filters that leave that  *)
(* experiment alone, from page 1 to the totalPages the first page reports.  *)
(***************************************************************************)

\* The directories holding experiment 1 alone, with a config.json that names
\* no refusal_detection method or the method "llm".
CompareDisks ==
    {[e \in {1} |->
        [d[1] EXCEPT !.config = [t |-> "dict", refusal_detection |-> rd]]] :
        d \in ReviewDisks, rd \in {JAbsent, JStr("llm")}}

InitCompare ==
    /\ experiments_dir \in CompareDisks
    /\ experiments_dir_exists = TRUE
    /\ rv_request = NoResult
    /\ rv_response = NoResult

\* The client's first request: the single-experiment review.
CompareReview ==
    /\ rv_request = NoResult
    /\ \E limit \in 1..MaxLimit :
         rv_request' = [endpoint |-> "review, then review-all", experiment_name |-> 1,
                        category |-> "", limit |-> limit]
    /\ rv_response' = [single |-> get_experiment_review(experiments_dir, 1),
                       pages |-> <<>>]
    /\ UNCHANGED <<experiments_dir, experiments_dir_exists>>

\* The client's next request: the next page of review-all.
ComparePage ==
    /\ rv_request # NoResult
    /\ IF rv_response.pages = <<>> THEN TRUE
       ELSE /\ rv_response.pages[1].status = "200"
            /\ Len(rv_response.pages) < rv_response.pages[1].totalPages
    /\ rv_response' =
         [rv_response EXCEPT !.pages =
             Append(@, get_experiments_review_all(
                           experiments_dir_exists, experiments_dir,
                           rv_request.category, Len(@) + 1, rv_request.limit))]
    /\ UNCHANGED <<experiments_dir, experiments_dir_exists, rv_request>>

NextCompare ==
    \/ CompareReview /\ UNCHANGED <<lockVars, progressVars, paginateVars, validationVars, queryVars, sweepVars, workerVars>>
    \/ ComparePage /\ UNCHANGED <<lockVars, progressVars, paginateVars, validationVars, queryVars, sweepVars, workerVars>>

(***************************************************************************)
(* Allocation session worker: _setup_session_worker (tmux.py) and           *)
(* _setup_screen_worker (screens.py).  The two bodies are the same          *)
(* statement for statement; "session" stands for the tmux session or the    *)
(* screen.  Each step of the thread is an action; the sleeps between the     *)
(* steps change no state.                                                    *)
(***************************************************************************)

\* for _ in range(900)
MaxPolls == 900

\* Longest list of user commands.
MaxCommands == 2

\* What squeue can print for the job: nothing once the job has left the
\* queue, or the name of its state.
JobStatuses ==
    {"", "PENDING", "RUNNING", "CANCELLED", "FAILED", "COMPLETED", "TIMEOUT"}

\* The statuses on which the worker gives up.
GoneStatuses == {"", "CANCELLED", "FAILED", "COMPLETED", "TIMEOUT"}

\* User commands: two commands and a blank line.
CommandTexts == {"a", "b", "  "}

CommandLists == UNION {[1..n -> CommandTexts] : n \in 0..MaxCommands}

\* A send loop that sends every line.
NonBlank_EveryLine(cmd) == TRUE

\* if cmd.strip():
NonBlank(cmd) == Strip(cmd) # ""

\* f"srun --pty --jobid={job_id} bash"
srun_cmd == "srun --pty --jobid=<job_id> bash"

InitWorkerVars ==
    /\ w_commands = <<>>
    /\ w_exists = FALSE
    /\ w_pc = "poll"
    /\ w_polls = 0
    /\ w_status = "not read"
    /\ w_index = 0
    /\ w_ops = <<>>

\* The thread has been started with a list of commands; a session of its
\* name may be left over from earlier.
InitWorker ==
    /\ w_commands \in CommandLists
    /\ w_exists \in BOOLEAN
    /\ w_pc = "poll"
    /\ w_polls = 0
    /\ w_status = "not read"
    /\ w_index = 0
    /\ w_ops = <<>>

\* A poll that reads RUNNING: break.  The loop variable is not read again.
PollRunning ==
    /\ w_pc = "poll"
    /\ w_polls < MaxPolls
    /\ w_status' = "RUNNING"
    /\ w_pc' = "create"
    /\ w_polls' = 0
    /\ UNCHANGED <<w_commands, w_exists, w_index, w_ops>>

\* A poll that reads nothing or a final state: return.
PollGone ==
    /\ w_pc = "poll"
    /\ w_polls < MaxPolls
    /\ \E status \in GoneStatuses : w_status' = status
    /\ w_pc' = "returned"
    /\ w_polls' = 0
    /\ UNCHANGED <<w_commands, w_exists, w_index, w_ops>>

\* A poll that reads any other state: sleep and poll again.
PollWait ==
    /\ w_pc = "poll"
    /\ w_polls < MaxPolls
    /\ \E status \in JobStatuses \ (GoneStatuses \cup {"RUNNING"}) : w_status' = status
    /\ w_polls' = w_polls + 1
    /\ UNCHANGED <<w_commands, w_exists, w_pc, w_index, w_ops>>

\* The else branch of the for loop: range(900) is used up, return.
PollExhausted ==
    /\ w_pc = "poll"
    /\ w_polls = MaxPolls
    /\ w_pc' = "timed out"
    /\ w_polls' = 0
    /\ UNCHANGED <<w_commands, w_exists, w_status, w_index, w_ops>>

\* A session of that name is killed if there is one, then the session is
\* created.
CreateSession ==
    /\ w_pc = "create"
    /\ w_ops' = w_ops \o (IF w_exists THEN <<[op |-> "kill"]>> ELSE <<>>)
                      \o <<[op |-> "create"]>>
    /\ w_exists' = TRUE
    /\ w_pc' = "srun"
    /\ UNCHANGED <<w_commands, w_polls, w_status, w_index>>

\* send(session, srun_cmd)
SendSrun ==
    /\ w_pc = "srun"
    /\ w_ops' = Append(w_ops, [op |-> "send", command |-> srun_cmd])
    /\ w_pc' = "commands"
    /\ UNCHANGED <<w_commands, w_exists, w_polls, w_status, w_index>>

\* One iteration of the loop over the commands, a command that is sent.
SendCommand ==
    /\ w_pc = "commands"
    /\ w_index < Len(w_commands)
    /\ NonBlank(w_commands[w_index + 1])
    /\ w_ops' = Append(w_ops, [op |-> "send", command |-> w_commands[w_index + 1]])
    /\ w_index' = w_index + 1
    /\ UNCHANGED <<w_commands, w_exists, w_pc, w_polls, w_status>>

\* One iteration of the loop over the commands, a blank command.
SkipCommand ==
    /\ w_pc = "commands"
    /\ w_index < Len(w_commands)
    /\ ~NonBlank(w_commands[w_index + 1])
    /\ w_index' = w_index + 1
    /\ UNCHANGED <<w_commands, w_exists, w_pc, w_polls, w_status, w_ops>>

\* The end of the loop over the commands: the worker returns.
WorkerDone ==
    /\ w_pc = "commands"
    /\ w_index = Len(w_commands)
    /\ w_pc' = "sent"
    /\ UNCHANGED <<w_commands, w_exists, w_polls, w_status, w_index, w_ops>>

NextWorker ==
    \/ PollRunning /\ UNCHANGED <<lockVars, progressVars, reviewVars, paginateVars, validationVars, queryVars, sweepVars>>
    \/ PollGone /\ UNCHANGED <<lockVars, progressVars, reviewVars, paginateVars, validationVars, queryVars, sweepVars>>
    \/ PollWait /\ UNCHANGED <<lockVars, progressVars, reviewVars, paginateVars, validationVars, queryVars, sweepVars>>
    \/ PollExhausted /\ UNCHANGED <<lockVars, progressVars, reviewVars, paginateVars, validationVars, queryVars, sweepVars>>
    \/ CreateSession /\ UNCHANGED <<lockVars, progressVars, reviewVars, paginateVars, validationVars, queryVars, sweepVars>>
    \/ SendSrun /\ UNCHANGED <<lockVars, progressVars, reviewVars, paginateVars, validationVars, queryVars, sweepVars>>
    \/ SendCommand /\ UNCHANGED <<lockVars, progressVars, reviewVars, paginateVars, validationVars, queryVars, sweepVars>>
    \/ SkipCommand /\ UNCHANGED <<lockVars, progressVars, reviewVars, paginateVars, validationVars, queryVars, sweepVars>>
    \/ WorkerDone /\ UNCHANGED <<lockVars, progressVars, reviewVars, paginateVars, validationVars, queryVars, sweepVars>>

InitSpecLock ==
    InitLock /\ InitProgressVars /\ InitReviewVars /\ InitPaginateVars /\ InitValidationVars
        /\ InitQueryVars /\ InitSweepVars /\ InitWorkerVars

SpecLock == InitSpecLock /\ [][NextLock]_vars

InitSpecReview ==
    InitLockVars /\ InitProgressVars /\ InitReview /\ InitPaginateVars /\ InitValidationVars
        /\ InitQueryVars /\ InitSweepVars /\ InitWorkerVars

SpecReview == InitSpecReview /\ [][NextReview]_vars

InitSpecProgress ==
    InitLockVars /\ InitProgress /\ InitReviewVars /\ InitPaginateVars /\ InitValidationVars
        /\ InitQueryVars /\ InitSweepVars /\ InitWorkerVars

SpecProgress == InitSpecProgress /\ [][NextProgress]_vars

InitSpecPaginate ==
    InitLockVars /\ InitProgressVars /\ InitReviewVars /\ InitPaginate /\ InitValidationVars
        /\ InitQueryVars /\ InitSweepVars /\ InitWorkerVars

SpecPaginate == InitSpecPaginate /\ [][NextPaginate]_vars

InitSpecValidation ==
    InitLockVars /\ InitProgressVars /\ InitReviewVars /\ InitPaginateVars /\ InitValidationVars
        /\ InitQueryVars /\ InitSweepVars /\ InitWorkerVars

SpecValidation == InitSpecValidation /\ [][NextValidation]_vars

InitSpecQuery ==
    InitLockVars /\ InitProgressVars /\ InitReviewVars /\ InitPaginateVars /\ InitValidationVars
        /\ InitQuery /\ InitSweepVars /\ InitWorkerVars

SpecQuery == InitSpecQuery /\ [][NextQuery]_vars

InitSpecShaped ==
    InitLockVars /\ InitProgressVars /\ InitShaped /\ InitPaginateVars /\ InitValidationVars
        /\ InitQueryVars /\ InitSweepVars /\ InitWorkerVars

SpecShaped == InitSpecShaped /\ [][NextShaped]_vars

InitSpecScope ==
    InitLockVars /\ InitProgressVars /\ InitScope /\ InitPaginateVars /\ InitValidationVars
        /\ InitQueryVars /\ InitSweepVars /\ InitWorkerVars

SpecScope == InitSpecScope /\ [][NextReview]_vars

InitSpecSweep ==
    InitLockVars /\ InitProgressVars /\ InitReviewVars /\ InitPaginateVars /\ InitValidationVars
        /\ InitQueryVars /\ InitSweep /\ InitWorkerVars

SpecSweep == InitSpecSweep /\ [][NextSweep]_vars

SpecMalformed == InitSpecProgress /\ [][NextMalformed]_vars

SpecStore == InitSpecValidation /\ [][NextStore]_vars

InitSpecRepeated ==
    InitRepeatedLock /\ InitRepeated /\ InitReviewVars /\ InitPaginateVars /\ InitValidationVars
        /\ InitQueryVars /\ InitSweepVars /\ InitWorkerVars

SpecRepeated == InitSpecRepeated /\ [][NextRepeated]_vars

InitSpecCompare ==
    InitLockVars /\ InitProgressVars /\ InitCompare /\ InitPaginateVars /\ InitValidationVars
        /\ InitQueryVars /\ InitSweepVars /\ InitWorkerVars

SpecCompare == InitSpecCompare /\ [][NextCompare]_vars

InitSpecWorker ==
    InitLockVars /\ InitProgressVars /\ InitReviewVars /\ InitPaginateVars /\ InitValidationVars
        /\ InitQueryVars /\ InitSweepVars /\ InitWorker

\* The worker is a thread of its own: while it has a step to take, it takes
\* one (every subprocess call returns).
SpecWorker == InitSpecWorker /\ [][NextWorker]_vars /\ WF_vars(NextWorker)

(***************************************************************************)
(* Claims about the progress evaluator (under SpecProgress).               *)
(***************************************************************************)

RowComplete(r) ==
    /\ r.checkpoint_progress.completed = r.checkpoint_progress.total
    /\ r.defense_progress.completed = r.defense_progress.total

RowsBuilt == {rows[i] : i \in 1..Len(rows)}

\* C1: a combination whose required artifacts are all present (checkpoint_done
\* = checkpoint_total and defense_done = defense_total) has status completed,
\* whatever the state of its lock (none, active, blocked or stale).
C1_CompletionWins ==
    \A r \in RowsBuilt : RowComplete(r) => r.status = "completed"

\* C1 witness: one response under construction holds a completed row whose lock
\* is blocked and a completed row whose lock is stale.
C1_Witness ==
    /\ \E r \in RowsBuilt : r.status = "completed" /\ r.lock.status = "blocked"
    /\ \E r \in RowsBuilt : r.status = "completed" /\ r.lock.status = "stale"

\* C2: a combination with a required artifact missing is blocked iff its lock
\* is blocked, in_progress iff its lock is active, pending iff its lock is none
\* or stale; every combination of a returned response has exactly one of the
\* four statuses.
C2_IncompleteStatusFollowsLock ==
    /\ \A r \in RowsBuilt :
         /\ r.status \in {"completed", "blocked", "in_progress", "pending"}
         /\ ~RowComplete(r) =>
              /\ r.status = "blocked" <=> r.lock.status = "blocked"
              /\ r.status = "in_progress" <=> r.lock.status = "active"
              /\ r.status = "pending" <=> r.lock.status \in {"none", "stale"}
    /\ pg_pc = "done" =>
         /\ Len(pg_response.rows) = Len(combinations)
         /\ \A i \in 1..Len(combinations) : pg_response.rows[i].index = i - 1

\* C2 witness: a returned response with an incomplete pending row under a stale
\* lock and an incomplete in_progress row.
C2_Witness ==
    /\ pg_pc = "done"
    /\ \E r \in RowsBuilt :
         ~RowComplete(r) /\ r.lock.status = "stale" /\ r.status = "pending"
    /\ \E r \in RowsBuilt : ~RowComplete(r) /\ r.status = "in_progress"

(***************************************************************************)
(* Claims about the lock inspector (under SpecLock).                       *)
(***************************************************************************)

\* The lock file is a JSON object with a non-blank string hostname and a
\* positive JSON integer pid.
WellFormedLock ==
    /\ lock_file.k = "json"
    /\ lock_file.v.t = "obj"
    /\ lock_file.v.hostname.t = "str"
    /\ Strip(lock_file.v.hostname.s) # ""
    /\ lock_file.v.pid.t = "int"
    /\ lock_file.v.pid.i > 0

Classified(status) == ~lock_info.raised /\ lock_info.status = status

\* C3: inspect_running_lock classifies a lock whose hostname is the current
\* host and whose pid is not in the process table as stale, the same file
\* under the hostname of another host as active (pid live or not), and an
\* empty or non-JSON lock file as blocked.
C3_LockClassification ==
    lock_info # NoResult =>
        /\ (WellFormedLock /\ lock_file.v.hostname.s = current_host
              /\ lock_file.v.pid.i \notin proc_table) => Classified("stale")
        /\ (WellFormedLock /\ lock_file.v.hostname.s # current_host)
              => Classified("active")
        /\ lock_file.k \in {"empty", "text", "undecodable"} => Classified("blocked")

\* The part of C3 the inspector does satisfy: the two well-formed cases, and
\* blocked for an empty file and for decodable text that is not JSON.
C3_DecodableLockClassification ==
    lock_info # NoResult =>
        /\ (WellFormedLock /\ lock_file.v.hostname.s = current_host
              /\ lock_file.v.pid.i \notin proc_table) => Classified("stale")
        /\ (WellFormedLock /\ lock_file.v.hostname.s # current_host)
              => Classified("active")
        /\ lock_file.k \in {"empty", "text"} => Classified("blocked")

(***************************************************************************)
(* Claims about the classifier and the review aggregator (under SpecReview). *)
(***************************************************************************)

\* The category table of the specification.
TableCategory(should_activate, is_refusal) ==
    CASE should_activate /\ ~is_refusal -> "tp"
      [] should_activate /\ is_refusal -> "fn"
      [] ~should_activate /\ is_refusal -> "tn"
      [] ~should_activate /\ ~is_refusal -> "fp"

\* The variant stored under name v in experiment e.
DiskVariant(e, v) ==
    LET vs == experiments_dir[e].variants
    IN vs[CHOOSE k \in 1..Len(vs) : vs[k].name = v]

\* The matched_keywords list the score file holds for sample <<e, v, i>>.
DiskKeywords(id) == DiskVariant(id[1], id[2]).score.per_sample.items[id[3]].matched_keywords.items

DiskShouldActivate(id) == DiskVariant(id[1], id[2]).meta.should_activate.b

\* A returned row belongs to the sample its input names, keeps exactly the
\* non-empty keywords of that sample, and has the table's category.
RowFollowsTable(variant, input, matched_keywords, category) ==
    /\ variant = input[2]
    /\ \A j \in 1..Len(matched_keywords) : matched_keywords[j] # ""
    /\ SeqRange(matched_keywords) = SeqRange(DiskKeywords(input)) \ {""}
    /\ category = TableCategory(DiskShouldActivate(input), matched_keywords # <<>>)

ReviewOk(endpoint) ==
    /\ rv_request # NoResult
    /\ rv_request.endpoint = endpoint
    /\ rv_response.status = "200"

\* C4: with is_refusal := (matched_keywords non-empty), both endpoints give a
\* sample the category of the table (tp, fn, tn, fp), hence the same category
\* to the same sample.
C4_ClassificationTable ==
    /\ ReviewOk("review") =>
         \A cat \in {"tp", "fp", "fn", "tn"} :
           \A k \in 1..Len(rv_response.samples[cat]) :
             LET r == rv_response.samples[cat][k] IN
             /\ r.input[1] = rv_request.experiment_name
             /\ r.should_activate = DiskShouldActivate(r.input)
             /\ RowFollowsTable(r.variant, r.input, r.matched_keywords, cat)
    /\ ReviewOk("review-all") =>
         \A k \in 1..Len(rv_response.samples) :
           LET r == rv_response.samples[k]
               single == get_experiment_review(experiments_dir, r.experiment_name)
           IN /\ r.input[1] = r.experiment_name
              /\ RowFollowsTable(r.variant, r.input, r.matched_keywords, r.category)
              /\ single.status = "200" =>
                   \E j \in 1..Len(single.samples[r.category]) :
                     single.samples[r.category][j].input = r.input

\* C4 witness: a page holding a false negative and a false positive, the
\* latter from a sample whose stored keyword list is [""].
C4_Witness ==
    /\ ReviewOk("review-all")
    /\ \E k \in 1..Len(rv_response.samples) : rv_response.samples[k].category = "fn"
    /\ \E k \in 1..Len(rv_response.samples) :
         /\ rv_response.samples[k].category = "fp"
         /\ DiskKeywords(rv_response.samples[k].input) = <<"">>

\* C5: for an artifact pair whose per_sample lengths match the outputs, the
\* number of samples get_experiment_review puts in each bucket equals the
\* count compute_confusion_counts derives from num_samples/num_success.
C5_CountsAgreeWithBuckets ==
    ReviewOk("review") =>
        \A cat \in {"tp", "fp", "fn", "tn"} :
            Len(rv_response.samples[cat]) = rv_response.counts[cat]

\* The samples of the included experiments that are objects, as keys
\* <<experiment, variant, index>>.
IncludedSampleKeys ==
    {id \in ExperimentNames \X VariantNames \X (1..(MaxSamples + 1)) :
        /\ id[1] \in SeqRange(IncludedExperiments(experiments_dir))
        /\ \E k \in 1..Len(experiments_dir[id[1]].variants) :
             experiments_dir[id[1]].variants[k].name = id[2]
        /\ DiskVariant(id[1], id[2]).samples.t = "list"
        /\ id[3] <= Len(DiskVariant(id[1], id[2]).samples.items)
        /\ DiskVariant(id[1], id[2]).samples.items[id[3]].t = "dict"}

DiskCategory(id) ==
    TableCategory(DiskShouldActivate(id), SeqRange(DiskKeywords(id)) \ {""} # {})

\* The keys whose category matches the requested one (all when none is).
MatchingKeys(category) ==
    {id \in IncludedSampleKeys : category = "" \/ DiskCategory(id) = category}

\* Order by experiment name, then variant name, then sample index.
KeyBefore(a, b) ==
    \/ a[1] < b[1]
    \/ a[1] = b[1] /\ a[2] < b[2]
    \/ a[1] = b[1] /\ a[2] = b[2] /\ a[3] <= b[3]

RECURSIVE KeysInOrder(_)
KeysInOrder(S) ==
    IF S = {} THEN <<>>
    ELSE LET m == CHOOSE x \in S : \A y \in S : KeyBefore(x, y)
         IN <<m>> \o KeysInOrder(S \ {m})

Min(a, b) == IF a < b THEN a ELSE b

\* C6: total is the number of samples of the included experiments whose
\* per-sample category matches the request, whatever the page and limit.
C6_TotalCountsMatchingSamples ==
    ReviewOk("review-all") =>
        rv_response.total = Cardinality(MatchingKeys(rv_request.category))

\* C7: the rows of a page are the elements [limit*(page-1), limit*page) of the
\* category-matching samples of the included experiments, ordered by
\* experiment name, variant name and sample index.
C7_PageIsWindowOfMatches ==
    ReviewOk("review-all") =>
        LET keys == KeysInOrder(MatchingKeys(rv_request.category))
            start == rv_request.limit * (rv_request.page - 1)
            window == SubSeq(keys, start + 1, Min(start + rv_request.limit, Len(keys)))
        IN /\ Len(rv_response.samples) = Len(window)
           /\ \A k \in 1..Len(window) :
                /\ rv_response.samples[k].input = window[k]
                /\ rv_response.samples[k].experiment_name = window[k][1]
                /\ rv_response.samples[k].variant = window[k][2]
                /\ rv_response.samples[k].category = DiskCategory(window[k])

\* C7 witness: a second page of one row taken from the second of two variants
\* that all_outputs lists in reverse name order, past a sample that is skipped.
C7_Witness ==
    /\ ReviewOk("review-all")
    /\ rv_request.page = 2
    /\ rv_request.category = "tp"
    /\ Len(rv_response.samples) = 1
    /\ rv_response.samples[1].variant = 2
    /\ Len(experiments_dir[1].variants) = 2
    /\ experiments_dir[1].variants[1].name = 2

\* The least n with n * limit >= total.
CeilOf(total, limit) ==
    CHOOSE n \in 0..total : n * limit >= total /\ \A m \in 0..(n - 1) : m * limit < total

\* C8: for a list of size T and a limit L >= 1, the samples of pages
\* 1..ceil(T/L) concatenated are the list itself, a page beyond the last is
\* empty, and every page reports totalPages = max(1, ceil(T/L)).
C8_PagesPartitionTheList ==
    LET lastPage == CeilOf(Len(pag_items), pag_limit)
        served == pag_page - 1
    IN  /\ served >= lastPage => pag_concat = pag_items
        /\ (served > lastPage /\ pag_response # NoResult /\ pag_response.status = "200")
               => pag_response.samples = <<>>
        /\ (pag_response # NoResult /\ pag_response.status = "200")
               => pag_response.totalPages = Max0(lastPage - 1) + 1

\* Three pag_items walked with limit 2: the second page is the last and holds
\* the one remaining item.
C8_Witness ==
    /\ Len(pag_items) = MaxItems
    /\ pag_items[1] # pag_items[2]
    /\ pag_limit = 2
    /\ pag_page = CeilOf(Len(pag_items), pag_limit) + 1
    /\ pag_response # NoResult
    /\ pag_response.status = "200"
    /\ pag_response.page = CeilOf(Len(pag_items), pag_limit)
    /\ pag_response.samples # <<>>
    /\ pag_concat = pag_items

\* The entries of validation.json.
StoredEntries == load_validation_entries(validation_json).entries

EntryKey(entry) == <<entry.dataset, entry.sample_index>>

WrittenKeys == {EntryKey(val_log[n]) : n \in 1..Len(val_log)}

\* The submission for a key that was written last.
LastWritten(key) ==
    LET ns == {n \in 1..Len(val_log) : EntryKey(val_log[n]) = key}
    IN  val_log[CHOOSE n \in ns : \A m \in ns : m <= n]

\* C9: from an empty store, the store holds at most one entry per
\* (dataset, sample_index), the entry of a key is the submission for that
\* key that was made last, and the store is no larger than the number of
\* distinct keys submitted.
C9_ValidationDedup ==
    LET store == StoredEntries
    IN  /\ \A i, j \in 1..Len(store) :
               EntryKey(store[i]) = EntryKey(store[j]) => i = j
        /\ \A i \in 1..Len(store) :
               /\ EntryKey(store[i]) \in WrittenKeys
               /\ store[i] = LastWritten(EntryKey(store[i]))
        /\ Len(store) <= Cardinality(WrittenKeys)

\* Two different submissions for one key have been written and the store
\* holds the second alone.
C9_Witness ==
    /\ Len(val_log) = 2
    /\ EntryKey(val_log[1]) = EntryKey(val_log[2])
    /\ val_log[1] # val_log[2]
    /\ StoredEntries = <<val_log[2]>>

\* The callers between load_validation_entries and the end of write_json.
InCycle == {t \in Threads : val_pc[t] \in {"load", "open", "dump", "replace"}}

\* C10: at most one caller of post_validation is between
\* load_validation_entries and the end of write_json, and every key that
\* was written is still in the store.
C10_NoInterleavedCycles ==
    /\ Cardinality(InCycle) <= 1
    /\ \A key \in WrittenKeys :
           \E i \in 1..Len(StoredEntries) : EntryKey(StoredEntries[i]) = key

\* One caller has written its entry and still holds the lock while another
\* caller with an entry of a different key waits for it.
C10_Witness ==
    \E t, u \in Threads :
        /\ val_pc[t] = "release"
        /\ val_pc[u] = "acquire"
        /\ EntryKey(val_entry[t]) # EntryKey(val_entry[u])
        /\ validation_lock = t
        /\ StoredEntries = <<val_entry[t]>>

RECURSIVE StoreAfter(_)
\* The store after the first n written submissions, from an empty store.
StoreAfter(n) ==
    IF n = 0 THEN <<>>
    ELSE LET before == StoreAfter(n - 1)
             same == {i \in 1..Len(before) : EntryKey(before[i]) = EntryKey(val_log[n])}
         IN  IF same = {} THEN before \o <<val_log[n]>>
             ELSE [i \in 1..Len(before) |->
                      IF i \in same THEN val_log[n] ELSE before[i]]

\* C11: validation.json never holds a partly written text, and a reader that
\* takes no lock gets a whole store content: the one left by the writes
\* that were complete when it read.
C11_ReadersSeeWholeStore ==
    /\ validation_json.k \in {"absent", "list"}
    /\ val_read # NoResult =>
           /\ val_read.result.ok
           /\ val_read.result.entries = StoreAfter(val_read.written)

\* A reader has read the store left by the first write while a second
\* writer was part-way through dumping its list.
C11_Witness ==
    /\ val_read # NoResult
    /\ val_read.written = 1
    /\ val_read.result.ok
    /\ val_read.result.entries = <<val_log[1]>>
    /\ validation_tmp = PartialFile
    /\ \E t \in Threads : val_pc[t] = "dump"

QueryOk ==
    /\ q_response # NoResult
    /\ q_response.status = "200"

\* The stored entries of a key that the request's filters let through.
StoredOfKey(key) ==
    {i \in 1..Len(q_store.data) :
        <<q_store.data[i].dataset, q_store.data[i].sample_index>> = key}

\* C12: the query returns at most one row per (dataset, sample_index), the
\* row of a key carries the latest reviewed_at of the stored entries of that
\* key, and the rows are in descending reviewed_at order.
C12_QueryKeepsLatest ==
    QueryOk =>
        LET out == q_response.samples
        IN  /\ \A i, j \in 1..Len(out) :
                   (out[i].dataset = out[j].dataset
                    /\ out[i].sample_index = out[j].sample_index) => i = j
            /\ \A i \in 1..Len(out) :
                   \A n \in StoredOfKey(<<out[i].dataset, out[i].sample_index>>) :
                       q_store.data[n].reviewed_at <= out[i].reviewed_at
            /\ \A i, j \in 1..Len(out) :
                   i < j => out[i].reviewed_at >= out[j].reviewed_at

\* The parts of C12 that hold: at most one row per key, the row of a key is
\* the stored entry of that key that comes last in the list, and the rows
\* are in descending reviewed_at order.
C12_QueryKeepsLastInList ==
    QueryOk =>
        LET out == q_response.samples
        IN  /\ \A i, j \in 1..Len(out) :
                   (out[i].dataset = out[j].dataset
                    /\ out[i].sample_index = out[j].sample_index) => i = j
            /\ \A i \in 1..Len(out) :
                   LET ns == StoredOfKey(<<out[i].dataset, out[i].sample_index>>)
                       last == CHOOSE n \in ns : \A m \in ns : m <= n
                   IN  /\ out[i].reviewed_at = q_store.data[last].reviewed_at
                       /\ out[i].result = q_store.data[last].result
            /\ \A i, j \in 1..Len(out) :
                   i < j => out[i].reviewed_at >= out[j].reviewed_at

\* The variants of an experiment whose per_sample array and outputs are
\* lists of different lengths.
MismatchedVariants(e) ==
    {k \in 1..Len(experiments_dir[e].variants) :
        LET v == experiments_dir[e].variants[k]
        IN  /\ v.samples.t = "list"
            /\ v.score.t = "dict"
            /\ v.score.per_sample.t = "list"
            /\ Len(v.score.per_sample.items) # Len(v.samples.items)}

\* A served request with page >= 1 and limit >= 1 whose scope holds a
\* variant of mismatched lengths.
MismatchInScope ==
    /\ rv_request # NoResult
    /\ experiments_dir_exists
    /\ \/ /\ rv_request.endpoint = "review"
          /\ MismatchedVariants(rv_request.experiment_name) # {}
       \/ /\ rv_request.endpoint = "review-all"
          /\ rv_request.page >= 1
          /\ rv_request.limit >= 1
          /\ \E e \in SeqRange(IncludedExperiments(experiments_dir)) :
                 MismatchedVariants(e) # {}

\* C13: a request whose scope holds a variant with a per_sample array of
\* another length than its outputs fails and returns no rows, for the
\* single-experiment review and for every page and limit of review-all.
C13_LengthMismatchAlwaysFails ==
    MismatchInScope => rv_response.status \in {"409", "500"}

\* The part of C13 that holds: the single-experiment review of an experiment
\* with such a variant fails.
C13_SingleReviewFailsOnMismatch ==
    (MismatchInScope /\ rv_request.endpoint = "review")
        => rv_response.status \in {"409", "500"}

\* C15: a review-all request with a limit or a page below 1 is answered 400
\* and carries no rows, whatever EXPERIMENTS_DIR holds and whether or not it
\* exists.
C15_BelowOneIsBadRequest ==
    (/\ rv_request # NoResult
     /\ rv_request.endpoint = "review-all"
     /\ (rv_request.limit < 1 \/ rv_request.page < 1))
        => rv_response.status = "400"

\* The part of C15 that holds for review-all: with EXPERIMENTS_DIR in place
\* and score files that load, a limit or a page below 1 is answered 400.
C15_BelowOneIsBadRequestWhenDirExists ==
    (/\ rv_request # NoResult
     /\ rv_request.endpoint = "review-all"
     /\ experiments_dir_exists
     /\ (rv_request.limit < 1 \/ rv_request.page < 1))
        => rv_response.status = "400"

RECURSIVE OutputsLength(_, _)
\* The number of samples the outputs file holds from its k-th variant on.
OutputsLength(variants, k) ==
    IF k > Len(variants) THEN 0
    ELSE Len(variants[k].samples.items) + OutputsLength(variants, k + 1)

\* C14: a single-experiment review that answers 200 has classified every
\* sample of every variant of the outputs file: its four buckets hold as
\* many rows as the variants' outputs have samples.
C14_NoRecordDropped ==
    ReviewOk("review") =>
        Len(rv_response.samples.tp) + Len(rv_response.samples.fp)
          + Len(rv_response.samples.fn) + Len(rv_response.samples.tn)
        = OutputsLength(experiments_dir[rv_request.experiment_name].variants, 1)

\* The experiments whose config.json declares no refusal_detection or
\* declares "keyword".
KeywordExperiments ==
    {e \in DOMAIN experiments_dir :
        LET config == experiments_dir[e].config
        IN  \/ config.t # "dict"
            \/ config.refusal_detection = JAbsent
            \/ config.refusal_detection = JStr("keyword")}

\* C16: the review-all response is the one the same request gets with the
\* experiments that declare another method than keyword taken off the disk,
\* and num_experiments counts the experiments that declare keyword or no
\* method.
C16_OtherMethodsExcluded ==
    (rv_request # NoResult /\ rv_request.endpoint = "review-all") =>
        /\ rv_response =
              get_experiments_review_all(
                  TRUE, [e \in KeywordExperiments |-> experiments_dir[e]],
                  rv_request.category, rv_request.page, rv_request.limit)
        /\ rv_response.num_experiments = Cardinality(KeywordExperiments)
        /\ \A i \in 1..Len(rv_response.samples) :
               rv_response.samples[i].experiment_name \in KeywordExperiments

\* Experiment 1 declares "llm" and experiment 2 declares nothing, both hold
\* samples: the page holds rows, all of experiment 2, and one experiment is
\* counted.
C16_Witness ==
    /\ rv_request # NoResult
    /\ rv_request.endpoint = "review-all"
    /\ experiments_dir[1].config = [t |-> "dict", refusal_detection |-> JStr("llm")]
    /\ experiments_dir[1].variants # <<>>
    /\ experiments_dir[2].config = [t |-> "dict", refusal_detection |-> JAbsent]
    /\ rv_response.samples # <<>>
    /\ \A i \in 1..Len(rv_response.samples) : rv_response.samples[i].experiment_name = 2
    /\ rv_response.num_experiments = 1
    /\ rv_response.total = 1

\* The artifacts combination i (1-based) requires: its checkpoint scores and,
\* under run_defense, one result per (defense epoch, defense method) pair.
RequiredScores(i) ==
    {ScorePath(i - 1, combinations[i].checkpoint_epochs[n]) :
        n \in 1..Len(combinations[i].checkpoint_epochs)}

RequiredDefenses(i) ==
    IF combinations[i].run_defense
    THEN {DefensePath(i - 1, combinations[i].defenses[d], combinations[i].defense_epochs[n]) :
            d \in 1..Len(combinations[i].defenses),
            n \in 1..Len(combinations[i].defense_epochs)}
    ELSE {}

\* C17: the missing_artifacts of a row are the required artifacts that are
\* not on disk, each once; there are (checkpoint_total - checkpoint_done) +
\* (defense_total - defense_done) of them, and the row is completed exactly
\* when there is none.
C17_MissingArtifactsListed ==
    \A i \in 1..Len(rows) :
        LET r == rows[i]
            absent == (RequiredScores(i) \cup RequiredDefenses(i)) \ pg_disk
        IN  /\ SeqRange(r.missing_artifacts) = absent
            /\ Len(r.missing_artifacts) = Cardinality(absent)
            /\ Len(r.missing_artifacts) =
                  (r.checkpoint_progress.total - r.checkpoint_progress.completed)
                  + (r.defense_progress.total - r.defense_progress.completed)
            /\ r.status = "completed" <=> r.missing_artifacts = <<>>

\* A row under run_defense with both defense results missing and its score
\* present, next to a completed row.
C17_Witness ==
    /\ \E i \in 1..Len(rows) :
           /\ Len(rows[i].missing_artifacts) = 2
           /\ rows[i].checkpoint_progress.completed = 1
           /\ rows[i].status # "completed"
    /\ \E i \in 1..Len(rows) :
           rows[i].status = "completed" /\ rows[i].missing_artifacts = <<>>

\* C18: under run_defense a row has defense_total = |defense_epochs| *
\* |defenses| and is completed only with every checkpoint score and every
\* (epoch, method) defense result on disk; without run_defense defense_total
\* and defense_done are 0 and the row is completed exactly when its scores
\* are on disk, whatever defense results are there.
C18_DefenseArtifactsRequired ==
    \A i \in 1..Len(rows) :
        LET r == rows[i]
            cfg == combinations[i]
            allDefensePaths ==
                {DefensePath(i - 1, cfg.defenses[d], cfg.defense_epochs[n]) :
                    d \in 1..Len(cfg.defenses), n \in 1..Len(cfg.defense_epochs)}
        IN  IF cfg.run_defense THEN
                /\ r.defense_progress.total = Len(cfg.defense_epochs) * Len(cfg.defenses)
                /\ r.status = "completed" =>
                       (RequiredScores(i) \cup allDefensePaths) \subseteq pg_disk
            ELSE
                /\ r.defense_progress.total = 0
                /\ r.defense_progress.completed = 0
                /\ r.status = "completed" <=> RequiredScores(i) \subseteq pg_disk

\* Without run_defense: one row completed with its defense result absent,
\* one row not completed with its defense result present; under run_defense:
\* a row with its score present and a defense result missing, not completed.
C18_Witness ==
    /\ Len(rows) = 2
    /\ ~combinations[1].run_defense
    /\ rows[1].status = "completed"
    /\ DefensePath(0, "d1", 1) \notin pg_disk
    /\ combinations[2].run_defense
    /\ ScorePath(1, 1) \in pg_disk
    /\ DefensePath(1, "d1", 1) \in pg_disk
    /\ DefensePath(1, "d2", 1) \notin pg_disk
    /\ rows[2].status # "completed"

\* The rows of a status.
RowsOfStatus(status) == {i \in 1..Len(rows) : rows[i].status = status}

\* C19: a returned response has one row per combination in expansion order,
\* its four counts are the numbers of rows of each status and add up to
\* total = the number of rows, and percent_complete is completed / total *
\* 100, 0 for an empty sweep.
C19_SummaryIsHistogram ==
    pg_pc = "done" =>
        LET summary == pg_response.summary
        IN  /\ pg_response.rows = rows
            /\ Len(rows) = Len(combinations)
            /\ \A i \in 1..Len(rows) : rows[i].index = i - 1
            /\ summary.total = Len(rows)
            /\ summary.completed = Cardinality(RowsOfStatus("completed"))
            /\ summary.in_progress = Cardinality(RowsOfStatus("in_progress"))
            /\ summary.blocked = Cardinality(RowsOfStatus("blocked"))
            /\ summary.pending = Cardinality(RowsOfStatus("pending"))
            /\ summary.completed + summary.in_progress + summary.blocked
                  + summary.pending = summary.total
            /\ IF summary.total = 0
               THEN summary.percent_complete.num = 0
               ELSE summary.percent_complete.num * summary.total
                      = summary.completed * 100 * summary.percent_complete.den

\* A returned response over two combinations of which exactly one is
\* completed: percent_complete is 50.
C19_Witness ==
    /\ pg_pc = "done"
    /\ pg_response.summary.total = MaxCombinations
    /\ pg_response.summary.completed = 1
    /\ pg_response.summary.blocked = 1
    /\ pg_response.summary.percent_complete.num
         = 50 * pg_response.summary.percent_complete.den

\* The value of a key in a combination as the claim compares it: absent, or
\* the value with a list turned into its JSON text.
ComparedValue(key, config) ==
    IF config[key] = JAbsent THEN <<"absent">>
    ELSE IF config[key].t = "list"
         THEN <<"value", JStr(IF config[key].items = <<1>> THEN "[1]" ELSE "[2]")>>
         ELSE <<"value", config[key]>>

\* The key has two combinations that do not give it the same value.
Varies(key) ==
    \E i, j \in 1..Len(sweep_combinations) :
        ComparedValue(key, sweep_combinations[i]) # ComparedValue(key, sweep_combinations[j])

\* The keys some combination has.
KeysOfCombinations ==
    {key \in SweepKeys :
        \E i \in 1..Len(sweep_combinations) : sweep_combinations[i][key] # JAbsent}

\* C20: a key of the combinations, `experiment` included, is reported as
\* varying exactly when its value is not the same in every combination, and
\* fewer than two combinations have no varying key.
C20_VaryingKeysAreThoseThatVary ==
    varying_arg_keys # NoResult =>
        /\ \A key \in KeysOfCombinations :
               key \in SeqRange(varying_arg_keys.keys) <=> Varies(key)
        /\ Len(sweep_combinations) < 2 => varying_arg_keys.keys = <<>>

\* The part of C20 that holds: every key other than `experiment` is reported
\* exactly when it varies, no key is reported twice, and fewer than two
\* combinations have no varying key.
C20_VaryingKeysExceptExperiment ==
    varying_arg_keys # NoResult =>
        /\ \A key \in KeysOfCombinations \ {"experiment"} :
               key \in SeqRange(varying_arg_keys.keys) <=> Varies(key)
        /\ Cardinality(SeqRange(varying_arg_keys.keys)) = Len(varying_arg_keys.keys)
        /\ Len(sweep_combinations) < 2 => varying_arg_keys.keys = <<>>

(***************************************************************************)
(* Claims about malformed lock files (under SpecMalformed).                *)
(***************************************************************************)

\* The rows of incomplete combinations are blocked and carry a lock reason.
IncompleteRowsBlocked(rs) ==
    \A i \in 1..Len(rs) :
        ~RowComplete(rs[i]) =>
            /\ rs[i].status = "blocked"
            /\ rs[i].lock.status = "blocked"
            /\ rs[i].lock.reason # ""

\* C21: a malformed running.lock (empty, not valid JSON, not an object, or
\* lacking hostname or a positive integer pid) never fails the progress
\* request: the request returns a row for every combination, and the row of
\* an incomplete combination is blocked with a non-empty lock reason.
C21_MalformedLockNeverFails ==
    /\ pg_pc # "failed"
    /\ IncompleteRowsBlocked(rows)
    /\ pg_pc = "done" => Len(pg_response.rows) = Len(combinations)

\* The part of C21 that holds: when the inspection of every malformed lock
\* returns, the response has a row per combination and the incomplete ones
\* are blocked with a reason.
C21_ReturnedInspectionIsBlocked ==
    /\ IncompleteRowsBlocked(rows)
    /\ pg_pc = "done" =>
         /\ Len(pg_response.rows) = Len(combinations)
         /\ IncompleteRowsBlocked(pg_response.rows)

(***************************************************************************)
(* Claims about the required fields of a lock (under SpecLock).            *)
(***************************************************************************)

LockIsObject == lock_file.k = "json" /\ lock_file.v.t = "obj"

\* hostname is absent, not a string, or blank.
UnusableHostname ==
    lock_file.v.hostname.t # "str" \/ Strip(lock_file.v.hostname.s) = ""

\* pid is not a positive integer: absent, not numeric, a numeric string, a
\* number that is not an integer, a boolean, zero or negative.
NotPositiveIntegerPid == lock_file.v.pid.t # "int" \/ lock_file.v.pid.i <= 0

\* pid is absent, null, an array, NaN, a string that is not a decimal
\* integer literal, or an integer that is zero or negative.
AbsentOrNonNumericOrNonPositivePid ==
    \/ lock_file.v.pid \in {JAbsent, JNull, JList, JNan, JStr("abc"), JStr("1.5")}
    \/ lock_file.v.pid.t = "int" /\ lock_file.v.pid.i <= 0

\* C22: inspect_running_lock returns none if and only if no lock file
\* exists, and returns blocked for every lock object whose hostname is
\* absent, not a string or blank, or whose pid is not a positive integer,
\* whatever the current host and the process table.
C22_RequiredFields ==
    lock_info # NoResult =>
        /\ Classified("none") <=> lock_file.k = "absent"
        /\ (LockIsObject /\ (UnusableHostname \/ NotPositiveIntegerPid))
              => Classified("blocked")

\* The part of C22 the inspector does satisfy: none exactly for a missing
\* file, blocked for an unusable hostname and for a pid that is absent, not
\* numeric, zero or negative.
C22_RequiredFieldsAsCoerced ==
    lock_info # NoResult =>
        /\ Classified("none") <=> lock_file.k = "absent"
        /\ (LockIsObject /\ (UnusableHostname \/ AbsentOrNonNumericOrNonPositivePid))
              => Classified("blocked")

(***************************************************************************)
(* Claims about the store used by one client after another (under           *)
(* SpecStore).                                                              *)
(***************************************************************************)

\* C23: after any sequence of post_validation calls on an initially empty
\* store, every stored entry satisfies the ValidationEntry schema: dataset
\* is train or test, result is good or bad, sample_index is a non-negative
\* integer and reviewed_at is set.
C23_StoredEntriesSatisfySchema ==
    \A i \in 1..Len(StoredEntries) :
        LET entry == StoredEntries[i] IN
        /\ entry.dataset \in {"train", "test"}
        /\ entry.result \in {"good", "bad"}
        /\ entry.sample_index \in Nat
        /\ entry.reviewed_at \in 1..val_clock

\* The part of C23 that holds: dataset, result and reviewed_at of every
\* stored entry are as the schema says, and sample_index is an integer.
C23_StoredEntriesSatisfySchemaButSign ==
    \A i \in 1..Len(StoredEntries) :
        LET entry == StoredEntries[i] IN
        /\ entry.dataset \in {"train", "test"}
        /\ entry.result \in {"good", "bad"}
        /\ entry.sample_index \in Int
        /\ entry.reviewed_at \in 1..val_clock

\* The payload of the post_validation call in `request` fails the schema.
OutsideSchema(request) ==
    /\ request.endpoint = "post_validation"
    /\ \/ request.payload.dataset \notin {"train", "test"}
       \/ request.payload.result \notin {"good", "bad"}

\* C24: a post_validation call whose dataset is not train/test or whose
\* result is not good/bad is answered 400 before the store lock is taken,
\* and leaves the store as it was: no entry added, replaced or re-stamped.
C24_RejectedCallLeavesStore ==
    [][(val_calls' = val_calls + 1 /\ OutsideSchema(q_request')) =>
          /\ val_response' # NoResult
          /\ val_response'.thread = 1
          /\ val_response'.response.status = "400"
          /\ val_pc'[1] = "idle"
          /\ validation_lock = Unlocked
          /\ UNCHANGED <<validation_json, validation_tmp, validation_lock,
                         val_clock, val_log>>]_vars

\* C24 witness: a call with result "fine" was answered 400 on a store that
\* holds an entry.
C24_Witness ==
    /\ q_request # NoResult
    /\ OutsideSchema(q_request)
    /\ q_request.payload.dataset = "train"
    /\ val_response # NoResult
    /\ val_response.response.status = "400"
    /\ val_pc[1] = "idle"
    /\ Len(StoredEntries) = 1

\* C25: an accepted post_validation for a key already in the store replaces
\* that entry in place (same position, same list length, every entry of
\* another key unchanged); one for a new key appends the entry and changes
\* no existing entry.
C25_UpsertInPlace ==
    [][val_log' # val_log =>
          LET before == load_validation_entries(validation_json).entries
              after == load_validation_entries(validation_json').entries
              entry == val_entry[1]
              held == {i \in 1..Len(before) :
                          /\ before[i].dataset = entry.dataset
                          /\ before[i].sample_index = entry.sample_index}
          IN  IF held # {}
              THEN /\ Len(after) = Len(before)
                   /\ \A i \in 1..Len(before) :
                          after[i] = IF i \in held THEN entry ELSE before[i]
              ELSE after = Append(before, entry)]_vars

\* C25 witness: three calls were written, the store holds two entries, and
\* the first of them is the one written last.
C25_Witness ==
    /\ Len(val_log) = 3
    /\ Len(StoredEntries) = 2
    /\ StoredEntries[1] = val_log[3]
    /\ StoredEntries[2] = val_log[2]
    /\ val_log[1] # val_log[3]

\* The sample indices of the entries written for a dataset.
SubmittedIndexes(dataset) ==
    {val_log[n].sample_index : n \in {m \in 1..Len(val_log) : val_log[m].dataset = dataset}}

StatsAnswered ==
    /\ q_request # NoResult
    /\ q_request.endpoint = "get_validation_stats"
    /\ q_response # NoResult
    /\ q_response.status = "200"

\* C28: after any sequence of accepted post_validation calls on an initially
\* empty store, get_validation_stats reports for train and for test
\* reviewed = good + bad = the number of distinct sample indices submitted
\* for that dataset, and its overall figures are the sums of the two.
C28_StatsCountDistinctSubmissions ==
    StatsAnswered =>
        /\ \A dataset \in {"train", "test"} :
              /\ q_response[dataset].reviewed
                    = q_response[dataset].good + q_response[dataset].bad
              /\ q_response[dataset].reviewed = Cardinality(SubmittedIndexes(dataset))
        /\ \A figure \in {"total", "reviewed", "good", "bad"} :
              q_response.overall[figure]
                 = q_response.train[figure] + q_response.test[figure]

\* C28 witness: three accepted calls, two of them for the same train sample
\* and one for a test sample; the stats report one reviewed sample each and
\* one bad verdict.
C28_Witness ==
    /\ StatsAnswered
    /\ Len(val_log) = 3
    /\ q_response.train.reviewed = 1
    /\ q_response.test.reviewed = 1
    /\ q_response.overall.bad = 1
    /\ q_response.overall.reviewed = 2

QueueAnswered ==
    /\ q_request # NoResult
    /\ q_request.endpoint = "get_validation_queue"
    /\ q_response # NoResult
    /\ q_response.status = "200"

\* C29: get_validation_queue returns the first max(1, limit) samples of the
\* dataset, in index order, that have no stored verdict for that dataset: a
\* sample with an accepted verdict never appears in its dataset's queue, a
\* verdict for the other dataset removes nothing, and reviewed + remaining
\* = total whenever every reviewed index is an index of the dataset.
C29_QueueIsUnreviewedPrefix ==
    QueueAnswered =>
        LET dataset == q_request.dataset
            queue == q_response.samples
            unreviewed == DatasetIndexes(dataset) \ SubmittedIndexes(dataset)
            cut == IF q_request.limit < 1 THEN 1 ELSE q_request.limit
            returned == {queue[i] : i \in 1..Len(queue)}
        IN  /\ returned \subseteq unreviewed
            /\ \A i, j \in 1..Len(queue) : i < j => queue[i] < queue[j]
            /\ \A s \in unreviewed \ returned : \A r \in returned : r < s
            /\ Len(queue) = IF Cardinality(unreviewed) < cut
                            THEN Cardinality(unreviewed) ELSE cut
            /\ q_response.total = Cardinality(DatasetIndexes(dataset))
            /\ SubmittedIndexes(dataset) \subseteq DatasetIndexes(dataset) =>
                  q_response.reviewed + q_response.remaining = q_response.total

\* C29 witness: verdicts for sample 0 of test and of train were accepted,
\* and the train queue asked with limit 0 returns sample 1 alone.
C29_Witness ==
    /\ QueueAnswered
    /\ q_request.dataset = "train"
    /\ q_request.limit = 0
    /\ SubmittedIndexes("train") = {0}
    /\ SubmittedIndexes("test") = {0}
    /\ q_response.samples = <<1>>
    /\ q_response.reviewed = 1
    /\ q_response.remaining = 1

(***************************************************************************)
(* Claims about repeated requests (under SpecRepeated).                    *)
(***************************************************************************)

Served == 1..Len(pg_history)

SameLockInputs(a, b) == a.file = b.file /\ a.host = b.host /\ a.procs = b.procs

\* The status the specification's table gives a combination: completed if
\* no artifact is missing, else by the state of the lock.
StatusOf(disk, lock_status) ==
    IF SeqRange(ScorePaths(0, combinations[1])) \subseteq disk THEN "completed"
    ELSE CASE lock_status = "blocked" -> "blocked"
           [] lock_status = "active" -> "in_progress"
           [] OTHER -> "pending"

RECURSIVE ConcatSamples(_, _)
\* The rows of the first n pages, in the order received.
ConcatSamples(pages, n) ==
    IF n = 0 THEN <<>> ELSE ConcatSamples(pages, n - 1) \o pages[n].samples

\* Both endpoints accepted the experiment: the single review answered 200,
\* every page up to totalPages answered 200, and review-all included the
\* experiment.
BothAccepted ==
    /\ rv_request # NoResult
    /\ rv_response.single.status = "200"
    /\ rv_response.pages # <<>>
    /\ \A p \in 1..Len(rv_response.pages) : rv_response.pages[p].status = "200"
    /\ Len(rv_response.pages) = rv_response.pages[1].totalPages
    /\ rv_response.pages[1].num_experiments = 1

\* (variant, input, output, matched_keywords, category) of a row.
RowTuple(row, category) ==
    <<row.variant, row.input, row.output, row.matched_keywords, category>>

\* How often the tuple occurs among the rows of the pages.
InPages(tuple) ==
    LET all == ConcatSamples(rv_response.pages, Len(rv_response.pages))
    IN  Cardinality({i \in 1..Len(all) : RowTuple(all[i], all[i].category) = tuple})

\* How often the tuple occurs in the four buckets.
InBuckets(tuple) ==
    LET bucket == rv_response.single.samples[tuple[5]]
    IN  Cardinality({i \in 1..Len(bucket) : RowTuple(bucket[i], tuple[5]) = tuple})

RowTuples ==
    LET all == ConcatSamples(rv_response.pages, Len(rv_response.pages))
    IN  {RowTuple(all[i], all[i].category) : i \in 1..Len(all)}
        \cup UNION {{RowTuple(rv_response.single.samples[c][i], c) :
                        i \in 1..Len(rv_response.single.samples[c])} :
                    c \in {"tp", "fp", "fn", "tn"}}

\* C27: for one experiment that both endpoints accept, the pages of
\* get_experiments_review_all (no category, all pages concatenated) hold the
\* same multiset of (variant, input, output, matched_keywords, category)
\* rows as the four buckets of get_experiment_review, and the same counts.
C27_EndpointsAgreeOnOneExperiment ==
    BothAccepted =>
        /\ \A tuple \in RowTuples : InPages(tuple) = InBuckets(tuple)
        /\ \A p \in 1..Len(rv_response.pages) :
              rv_response.pages[p].counts = rv_response.single.counts

\* C27 witness: the experiment lists variant 2 before variant 1, both
\* endpoints accepted it, and review-all returned two pages of one row with
\* the row of variant 1 first.
C27_Witness ==
    /\ BothAccepted
    /\ Len(experiments_dir[1].variants) = 2
    /\ experiments_dir[1].variants[1].name = 2
    /\ Len(rv_response.pages) = 2
    /\ Len(rv_response.pages[1].samples) = 1
    /\ Len(rv_response.pages[2].samples) = 1
    /\ rv_response.pages[1].samples[1].variant = 1
    /\ rv_response.pages[1].samples[1].category
          # rv_response.pages[2].samples[1].category

(***************************************************************************)
(* Claims about the allocation session worker (under SpecWorker).           *)
(***************************************************************************)

Returned == w_pc \in {"returned", "timed out", "sent"}

\* The commands sent so far.
SentCommands ==
    LET sends == SelectSeq(w_ops, LAMBDA o : o.op = "send")
    IN  [i \in 1..Len(sends) |-> sends[i].command]

\* srun, then the user commands that are not blank, in their order.
ExpectedCommands ==
    <<"srun --pty --jobid=<job_id> bash">>
        \o SelectSeq(w_commands, LAMBDA c : c \notin {"", "  "})

IsPrefix(s, t) == Len(s) <= Len(t) /\ \A i \in 1..Len(s) : s[i] = t[i]

\* The worker touches the session only after it read RUNNING; it returns
\* with the session untouched on an empty or final status and when the
\* polls are used up; what it sends is srun first, then the non-blank user
\* commands in their order.
WorkerSafe ==
    /\ w_polls <= 900
    /\ w_ops # <<>> => w_status = "RUNNING"
    /\ w_status \in {"", "CANCELLED", "FAILED", "COMPLETED", "TIMEOUT"}
          => w_pc = "returned" /\ w_ops = <<>>
    /\ w_pc \in {"returned", "timed out"} => w_ops = <<>>
    /\ w_pc = "timed out" => w_status \notin {"RUNNING"}
    /\ \A i \in 1..Len(w_ops) :
          w_ops[i].op = "send" => \E j \in 1..(i - 1) : w_ops[j].op = "create"
    /\ IsPrefix(SentCommands, ExpectedCommands)
    /\ w_pc = "sent" => SentCommands = ExpectedCommands

\* C30: the session worker creates a session and sends the srun and user
\* commands only after it has observed the job status RUNNING; it returns
\* without creating a session as soon as it observes an empty status or
\* CANCELLED, FAILED, COMPLETED or TIMEOUT, or after 900 polls without
\* RUNNING, so it always terminates; and it sends srun first, then the
\* non-blank user commands in their given order.
C30_WorkerWaitsSendsAndTerminates ==
    []WorkerSafe /\ <>Returned

\* C30 witness: the worker read RUNNING, replaced a leftover session and
\* sent srun and two user commands, having skipped nothing.
C30_Witness ==
    /\ w_pc = "sent"
    /\ w_commands = <<"b", "a">>
    /\ w_ops = <<[op |-> "kill"], [op |-> "create"],
                 [op |-> "send", command |-> "srun --pty --jobid=<job_id> bash"],
                 [op |-> "send", command |-> "b"],
                 [op |-> "send", command |-> "a"]>>

====
